---- MODULE Spec2Model ----
(***************************************************************************)
(* Station-level quality control, bias correction and aggregation of the   *)
(* wind pipeline (src/pipeline/process_raw.py, src/pipeline/preprocess.py).*)
(*                                                                         *)
(* Units: speeds are integers in thousandths of a mph (6 mph = 6000), so   *)
(* that the lowest speed band bound 0.001 and the calm floor 2.3 are exact.*)
(* A data frame is a sequence of row records in row order.  Each function  *)
(* of the pipeline is an operator; each specification draws the function's *)
(* argument in Init and applies the function in its actions.               *)
(***************************************************************************)
EXTENDS Integers, Sequences, FiniteSets, TLC

VARIABLES pc,        \* position of the run
          arg,       \* the argument the function under check was called with
          station,   \* the working data frame
          spikes,    \* audit record returned by filter_spurious
          dips,      \* audit record returned by filter_spurious
          cpts,      \* breakpoints reported by the changepoint detector
          changepoints, \* changepoint log returned by adjust_station
          roses,     \* wind-rose table (the accumulator of chunk_to_rose)
          calms,     \* calm table of process_calms
          rm_df,     \* observations discarded by adjust_sampling
          iter_k,    \* iteration counter k of adjust_sampling
          exceedance, \* crosswind exceedance table
          ret,       \* returned value of a function without a table
          tasks,     \* the tasks of a Pool.map call, one for each partition
          map_out,   \* the list of results Pool.map builds
          rerun      \* a second run of adjust_sampling on the same data

\* the state of process_raw.py and the state of preprocess.py
rawVars == <<spikes, dips, cpts, changepoints>>

prepVars == <<roses, calms, rm_df, iter_k, exceedance, ret>>

\* the state of a pool fan-out and of a repeated run
poolVars == <<tasks, map_out, rerun>>

vars == <<pc, arg, station, rawVars, prepVars, poolVars>>

\* the variables a specification does not use stay at these values
RawIdle ==
    /\ spikes = <<>>
    /\ dips = <<>>
    /\ cpts = <<>>
    /\ changepoints = <<>>

PrepIdle ==
    /\ roses = <<>>
    /\ calms = <<>>
    /\ rm_df = {}
    /\ iter_k = 0
    /\ exceedance = <<>>
    /\ ret = FALSE

PoolIdle ==
    /\ tasks = <<>>
    /\ map_out = <<>>
    /\ rerun = <<>>

\* the missing value (na_values="M" of read_csv)
NaN == -999999

----------------------------------------------------------------------------
(* Generic helpers *)

Range(s) == {s[i] : i \in 1..Len(s)}

Abs(x) == IF x < 0 THEN -x ELSE x

Min2(a, b) == IF a <= b THEN a ELSE b

Max2(a, b) == IF a >= b THEN a ELSE b

\* the sequence f with its elements evaluated
Seq_(f) == SubSeq(f, 1, Len(f))

RECURSIVE GCD(_, _)
GCD(a, b) == IF b = 0 THEN a ELSE GCD(b, a % b)

\* the sum of the elements lo..hi of the sequence s, by halves
RECURSIVE SumTo(_, _, _)
SumTo(s, lo, hi) ==
    IF lo > hi THEN 0
    ELSE IF lo = hi THEN s[lo]
    ELSE SumTo(s, lo, (lo + hi) \div 2) + SumTo(s, (lo + hi) \div 2 + 1, hi)

SeqSum(s) == SumTo(s, 1, Len(s))

\* rows of df whose ts is not in the set idx (DataFrame.drop(index))
DropIdx(df, idx) == SelectSeq(df, LAMBDA r : r.ts \notin idx)

\* rows of df whose ts is in the set idx (DataFrame.loc[index])
LocIdx(df, idx) == SelectSeq(df, LAMBDA r : r.ts \in idx)

----------------------------------------------------------------------------
(* scipy.signal.find_peaks, as called by filter_spurious.  x is a sequence *)
(* of integers; peaks are indices into x.                                  *)

\* last index of the run of values equal to x[i] starting at i
RECURSIVE PlateauEnd(_, _)
PlateauEnd(x, i) ==
    IF i < Len(x) /\ x[i + 1] = x[i] THEN PlateauEnd(x, i + 1) ELSE i

\* _local_maxima_1d: midpoints of the plateaus that are strictly higher than
\* both neighbours; the first and last samples are never peaks
local_maxima(x) ==
    { (l + PlateauEnd(x, l)) \div 2 :
        l \in { i \in 2..(Len(x) - 1) :
                  /\ x[i - 1] < x[i]
                  /\ PlateauEnd(x, i) < Len(x)
                  /\ x[PlateauEnd(x, i) + 1] < x[i] } }

\* _select_by_peak_threshold: vertical distance to both direct neighbours
peak_threshold(x, p) == Min2(x[p] - x[p - 1], x[p] - x[p + 1])

\* _peak_prominences (wlen unset): walk left from the peak while the signal
\* does not rise above it, remembering the leftmost lowest sample
RECURSIVE LeftBase(_, _, _, _)
LeftBase(x, p, i, base) ==
    IF i >= 1 /\ x[i] <= x[p]
    THEN LeftBase(x, p, i - 1, IF x[i] < x[base] THEN i ELSE base)
    ELSE base

RECURSIVE RightBase(_, _, _, _)
RightBase(x, p, i, base) ==
    IF i <= Len(x) /\ x[i] <= x[p]
    THEN RightBase(x, p, i + 1, IF x[i] < x[base] THEN i ELSE base)
    ELSE base

left_base(x, p) == LeftBase(x, p, p, p)

right_base(x, p) == RightBase(x, p, p, p)

prominence(x, p) == x[p] - Max2(x[left_base(x, p)], x[right_base(x, p)])

\* twice the evaluation height of _peak_widths at rel_height 0.5
\* (properties["width_heights"] = x[peak] - prominence / 2)
width_height2(x, p) == 2 * x[p] - prominence(x, p)

\* _peak_widths: walk from the peak down to the evaluation height, never
\* past the bases of the prominence
RECURSIVE LeftCross(_, _, _)
LeftCross(x, p, i) ==
    IF left_base(x, p) < i /\ width_height2(x, p) < 2 * x[i]
    THEN LeftCross(x, p, i - 1) ELSE i

RECURSIVE RightCross(_, _, _)
RightCross(x, p, i) ==
    IF i < right_base(x, p) /\ width_height2(x, p) < 2 * x[i]
    THEN RightCross(x, p, i + 1) ELSE i

\* width <= w, with the width the distance of the two linearly interpolated
\* intersection points: left_ip = il + a/b, right_ip = ir - c/d
width_at_most(x, p, w) ==
    LET h2 == width_height2(x, p)
        il == LeftCross(x, p, p)
        ir == RightCross(x, p, p)
        li == 2 * x[il] < h2
        ri == 2 * x[ir] < h2
        a0 == IF li THEN h2 - 2 * x[il] ELSE 0
        b0 == IF li THEN 2 * (x[il + 1] - x[il]) ELSE 1
        c0 == IF ri THEN h2 - 2 * x[ir] ELSE 0
        d0 == IF ri THEN 2 * (x[ir - 1] - x[ir]) ELSE 1
        \* the two fractions in lowest terms
        a  == a0 \div GCD(a0, b0)
        b  == b0 \div GCD(a0, b0)
        c  == c0 \div GCD(c0, d0)
        d  == d0 \div GCD(c0, d0)
    IN  (ir - il - w) * b * d <= c * b + a * d

\* find_peaks(x, prominence=prom, threshold=thr)
find_peaks_pt(x, prom, thr) ==
    { p \in local_maxima(x) : peak_threshold(x, p) >= thr
                              /\ prominence(x, p) >= prom }

\* find_peaks(x, prominence=prom, width=(None, w))
find_peaks_pw(x, prom, w) ==
    { p \in local_maxima(x) : prominence(x, p) >= prom
                              /\ width_at_most(x, p, w) }

----------------------------------------------------------------------------
(* filter_spurious (src/pipeline/process_raw.py) *)

ObvProminence == 30000
ObvThreshold == 50000
DipProminence == 30000
DipThreshold == 35000
FineProminence == 25000
FineWidth == 2
FineWidthHeight == 18000

\* the sped column of a series as a sequence of integers
Values(ws) == [i \in 1..Len(ws) |-> ws[i].sped]

Negated(x) == [i \in 1..Len(x) |-> 0 - x[i]]

\* index labels (ts) of the series at the given positions
Labels(ws, pos) == {ws[p].ts : p \in pos}

\* line 32: ignore missing speed data
ws_series0(st) == SelectSeq(st, LAMBDA r : r.sped # NaN)

\* lines 34-40: obvious spikes
obv_spikes_of(st) ==
    Labels(ws_series0(st),
           find_peaks_pt(Values(ws_series0(st)), ObvProminence, ObvThreshold))

ws_series1(st) == DropIdx(ws_series0(st), obv_spikes_of(st))

\* lines 43-49: dips of the spike-cleaned series
dips_of(st) ==
    Labels(ws_series1(st),
           find_peaks_pt(Negated(Values(ws_series1(st))),
                         DipProminence, DipThreshold))

ws_series2(st) == DropIdx(ws_series1(st), dips_of(st))

\* lines 52-60: less obvious peaks, kept when width_heights >= 18
fine_spikes_of(st) ==
    LET x == Values(ws_series2(st))
    IN  Labels(ws_series2(st),
               { p \in find_peaks_pw(x, FineProminence, FineWidth) :
                   width_height2(x, p) >= 2 * FineWidthHeight })

spikes_of(st) == obv_spikes_of(st) \cup fine_spikes_of(st)

\* lines 62-79: subset the station data to the flagged observations and
\* remove them; returns the record (station, spikes, dips)
filter_spurious(st) ==
    LET d   == dips_of(st)
        s   == spikes_of(st)
        \* lines 64-69
        dips1 == IF d # {} THEN LocIdx(st, d) ELSE <<>>
        st1   == IF d # {} THEN DropIdx(st, d) ELSE st
        \* lines 71-77: the else branch assigns the empty slice to dips
        spikes2 == IF s # {} THEN LocIdx(st1, s) ELSE <<>>
        st2     == IF s # {} THEN DropIdx(st1, s) ELSE st1
        dips2   == IF s # {} THEN dips1 ELSE <<>>
    IN  [station |-> st2, spikes |-> spikes2, dips |-> dips2]

----------------------------------------------------------------------------
(* Specification of filter_spurious: one hourly series per behaviour *)

MaxLen == 5

SpurSpeeds == {NaN, 5000, 20000, 30000, 60000}

RECURSIVE SeqsUpTo(_, _)
SeqsUpTo(S, n) ==
    IF n = 0 THEN {<<>>}
    ELSE SeqsUpTo(S, n - 1) \cup [1..n -> S]

SpurInputs ==
    { [i \in 1..Len(v) |-> [ts |-> i, sped |-> v[i]]] :
        v \in SeqsUpTo(SpurSpeeds, MaxLen) }

InitSpurious ==
    /\ pc = "start"
    /\ arg \in SpurInputs
    /\ station = arg
    /\ RawIdle
    /\ PrepIdle
    /\ PoolIdle

FilterSpurious ==
    /\ pc = "start"
    /\ LET out == filter_spurious(station)
       IN  /\ station' = out.station
           /\ spikes' = out.spikes
           /\ dips' = out.dips
    /\ pc' = "done"
    /\ UNCHANGED <<arg, cpts, changepoints, prepVars, poolVars>>

NextSpurious == FilterSpurious

SpecSpurious == InitSpurious /\ [][NextSpurious]_vars

\* the observations flagged on any of the three passes
Flagged(st) == obv_spikes_of(st) \cup dips_of(st) \cup fine_spikes_of(st)

\* C1: the clean stream, the spikes audit and the dips audit returned by
\* filter_spurious are pairwise disjoint, together they are exactly the
\* input, and every flagged observation is in an audit record and not in
\* the clean stream
C1_AuditKeepsFlagged ==
    pc = "done" =>
        /\ Range(station) \cap Range(spikes) = {}
        /\ Range(station) \cap Range(dips) = {}
        /\ Range(spikes) \cap Range(dips) = {}
        /\ Range(station) \cup Range(spikes) \cup Range(dips) = Range(arg)
        /\ \A r \in Range(arg) :
              r.ts \in Flagged(arg) =>
                  /\ r \notin Range(station)
                  /\ r \in Range(spikes) \cup Range(dips)

----------------------------------------------------------------------------
(* filter_to_hour (src/pipeline/process_raw.py).  valid is in minutes and  *)
(* ts in hours since 1980-01-01 00:00.                                     *)

MinutesPerHour == 60

\* Series.dt.round("H"): to the nearest hour, a half hour to the even hour
round_H(valid) ==
    LET q == valid \div MinutesPerHour
        r == valid % MinutesPerHour
    IN  IF 2 * r < MinutesPerHour THEN q
        ELSE IF 2 * r > MinutesPerHour THEN q + 1
        ELSE IF q % 2 = 0 THEN q ELSE q + 1

\* line 92: abs(ts - valid), in minutes
delta_dt(valid) == Abs(round_H(valid) * MinutesPerHour - valid)

SetMin(S) == CHOOSE m \in S : \A n \in S : m <= n

\* a mutation of min_delta_dt: the largest delta of the hour
min_delta_dt_max(st, ts) ==
    LET S == {delta_dt(st[i].valid) : i \in {j \in 1..Len(st) : round_H(st[j].valid) = ts}}
    IN  CHOOSE m \in S : \A n \in S : m >= n

\* lines 93-97: groupby("ts").agg(min) of delta_dt
min_delta_dt(st, ts) ==
    SetMin({delta_dt(st[i].valid) :
              i \in {j \in 1..Len(st) : round_H(st[j].valid) = ts}})

\* lines 99-100: the rows nearest to their hour
keep(st, i) == delta_dt(st[i].valid) = min_delta_dt(st, round_H(st[i].valid))

\* line 105: of the kept rows of one hour, the first in row order
first_kept(st, i) ==
    /\ keep(st, i)
    /\ \A j \in 1..(i - 1) :
          ~(keep(st, j) /\ round_H(st[j].valid) = round_H(st[i].valid))

\* the positions of the rows that survive, in row order
RECURSIVE KeptIdx(_, _)
KeptIdx(st, i) ==
    IF i > Len(st) THEN <<>>
    ELSE (IF first_kept(st, i) THEN <<i>> ELSE <<>>) \o KeptIdx(st, i + 1)

\* lines 91-108: the hourly frame, valid replaced by ts
filter_to_hour(st) ==
    LET idx == KeptIdx(st, 1)
    IN  [k \in 1..Len(idx) |->
            [ts |-> round_H(st[idx[k]].valid),
             drct |-> st[idx[k]].drct,
             sped |-> st[idx[k]].sped,
             gust_mph |-> st[idx[k]].gust_mph]]

----------------------------------------------------------------------------
(* Specification of filter_to_hour: the reports of one station file *)

MaxReports == 3

HourValids == {0, 20, 30, 40, 60, 80, 90, 100}

HourSpeeds == {5000, 9000}

HourInputs ==
    SeqsUpTo([valid : HourValids, drct : {90}, sped : HourSpeeds,
              gust_mph : {NaN}], MaxReports)

InitHour ==
    /\ pc = "start"
    /\ arg \in HourInputs
    /\ station = arg
    /\ RawIdle
    /\ PrepIdle
    /\ PoolIdle

FilterToHour ==
    /\ pc = "start"
    /\ station' = filter_to_hour(station)
    /\ pc' = "done"
    /\ UNCHANGED <<arg, spikes, dips, cpts, changepoints, prepVars, poolVars>>

NextHour == FilterToHour

SpecHour == InitHour /\ [][NextHour]_vars

----------------------------------------------------------------------------
(* Calendar: ts is in hours since 1980-01-01 00:00 *)

EpochYear == 1980
LastYear == 2019
HoursPerDay == 24

IsLeap(y) == (y % 4 = 0 /\ y % 100 # 0) \/ y % 400 = 0

DaysInYear(y) == IF IsLeap(y) THEN 366 ELSE 365

DaysInMonth(y, m) ==
    IF m = 2 THEN (IF IsLeap(y) THEN 29 ELSE 28)
    ELSE IF m \in {4, 6, 9, 11} THEN 30 ELSE 31

\* the leap years before year y, counted from year 1
LeapsBefore(y) == (y - 1) \div 4 - (y - 1) \div 100 + (y - 1) \div 400

\* days from the epoch to the first day of year y
DaysBeforeYear(y) ==
    365 * (y - EpochYear) + LeapsBefore(y) - LeapsBefore(EpochYear)

\* days from the first day of year y to the first day of its month m
DaysBeforeMonth(y, m) ==
    <<0, 31, 59, 90, 120, 151, 181, 212, 243, 273, 304, 334>>[m]
    + (IF m > 2 /\ IsLeap(y) THEN 1 ELSE 0)

\* pd.to_datetime("y-m-01"), in days and in hours
DayOfDate(y, m) == DaysBeforeYear(y) + DaysBeforeMonth(y, m)

TsOfDate(y, m) == HoursPerDay * DayOfDate(y, m)

\* ts.dt.year and ts.dt.month
YearOf(ts) ==
    LET y0 == EpochYear + (ts \div HoursPerDay) \div 366
    IN  IF ts < TsOfDate(y0 + 1, 1) THEN y0 ELSE y0 + 1

MonthOf(ts) ==
    LET y == YearOf(ts)
        m0 == 1 + ((ts - TsOfDate(y, 1)) \div HoursPerDay) \div 31
    IN  IF m0 = 12 \/ ts < TsOfDate(y, m0 + 1) THEN m0 ELSE m0 + 1

----------------------------------------------------------------------------
(* adjust_station (src/pipeline/process_raw.py) *)

\* lines 125-127: the year-month label "year_month" of a row
ym(ts) == <<YearOf(ts), MonthOf(ts)>>

\* line 128: groupby("ym", sort=False): the labels in order of appearance
RECURSIVE Appearance(_, _)
Appearance(st, i) ==
    IF i > Len(st) THEN <<>>
    ELSE (IF \E j \in 1..(i - 1) : ym(st[j].ts) = ym(st[i].ts)
          THEN <<>> ELSE <<ym(st[i].ts)>>) \o Appearance(st, i + 1)

monthly_means(st) == Appearance(st, 1)

\* line 147: pd.to_datetime(f"{ym[:4]}-{ym[5:]}-01")
cpt_date(label) == TsOfDate(label[1], label[2])

\* lines 146-147: the dates of the breakpoints cp (0-based positions in the
\* monthly means; the detector's last entry, the length, is left out)
cpt_dates_of(st, bkps) ==
    LET means == monthly_means(st)
    IN  Seq_([i \in 1..Len(bkps) |-> cpt_date(means[bkps[i] + 1])])

SliceStart == TsOfDate(EpochYear, 1)

\* the last hour of "2019-12-31"
SliceEnd == TsOfDate(LastYear + 1, 1) - 1

GapYears == 5

\* line 151: (cpt_dates[1] - cpt_dates[0]).days / 365 > 5
use_both(dates) == (dates[2] - dates[1]) \div HoursPerDay > GapYears * 365

\* lines 149-162: the breakpoint dates that are used
used_dates(dates) ==
    IF Len(dates) = 2 /\ ~use_both(dates) THEN <<dates[1]>> ELSE dates

\* lines 148-162: the slices, each a pair of inclusive bounds
slices_of(dates) ==
    IF Len(dates) = 2
    THEN IF use_both(dates)
         THEN << <<SliceStart, dates[1]>>, <<dates[1], dates[2]>>,
                 <<dates[2], SliceEnd>> >>
         ELSE << <<SliceStart, dates[1]>>, <<dates[1], SliceEnd>> >>
    ELSE << <<SliceStart, dates[1]>>, <<dates[1], SliceEnd>> >>

InSlice(ts, sl) == sl[1] <= ts /\ ts <= sl[2]

\* station[sl]["sped"]
SliceSped(st, sl) ==
    LET rows == SelectSeq(st, LAMBDA r : InSlice(r.ts, sl))
    IN  Seq_([i \in 1..Len(rows) |-> rows[i].sped])

\* insertion of v into the ascending sequence a
RECURSIVE Insert(_, _)
Insert(a, v) ==
    IF a = <<>> THEN <<v>>
    ELSE IF v <= Head(a) THEN <<v>> \o a
    ELSE <<Head(a)>> \o Insert(Tail(a), v)

RECURSIVE Sorted(_)
Sorted(a) == IF a = <<>> THEN <<>> ELSE Insert(Sorted(Tail(a)), Head(a))

\* statsmodels ECDF(sim)(v) * len(sim): the number of values <= v
ecdf_count(sim, v) == Cardinality({i \in 1..Len(sim) : sim[i] <= v})

\* n * np.nanpercentile(a, 100 * k / n): linear interpolation between the
\* order statistics at position k / n * (len(a) - 1)
percentile_n(a, k, n) ==
    LET srt == Sorted(a)
        pos == k * (Len(a) - 1)
        lo  == pos \div n
        fr  == pos % n
    IN  IF fr = 0 THEN n * srt[lo + 1]
        ELSE n * srt[lo + 1] + fr * (srt[lo + 2] - srt[lo + 1])

\* a mutation of basic_quantile_n: the percentile of sim is taken one rank
\* below the rank of v
basic_quantile_below_n(obs, sim, v) ==
    LET n == Len(sim)
        k == ecdf_count(sim, v)
    IN  n * v + percentile_n(obs, k, n) - percentile_n(sim, k - 1, n)

\* BiasCorrection(obs, sim, sim).correct(method="basic_quantile") for one
\* value v of sim, times len(sim):
\*   v + percentile(obs, p) - percentile(sim, p),  p = ECDF(sim)(v)
basic_quantile_n(obs, sim, v) ==
    LET n == Len(sim)
        k == ecdf_count(sim, v)
    IN  n * v + percentile_n(obs, k, n) - percentile_n(sim, k, n)

\* adjusted speeds are fractions [n / d] of thousandths of a mph
Frac(n, d) == [n |-> n \div GCD(Abs(n), d), d |-> d \div GCD(Abs(n), d)]

Whole(v) == [n |-> v, d |-> 1]

\* a mutation of clamp: negative adjusted speeds are kept
clamp_none(r) ==
    IF r.sped = 0 THEN [r EXCEPT !.sped_adj = Whole(0)] ELSE r

\* lines 177-180: adjusted values below 0 become calm, calm stays calm
clamp(r) ==
    LET r1 == IF r.sped_adj.n < 0
              THEN [r EXCEPT !.sped_adj = Whole(0), !.drct = 0] ELSE r
    IN  IF r1.sped = 0 THEN [r1 EXCEPT !.sped_adj = Whole(0)] ELSE r1

\* lines 172-180: one pass of the loop over the historical slices
correct_slice(st, obs, sl) ==
    LET sim == SliceSped(st, sl)
    IN  Seq_([i \in 1..Len(st) |->
            clamp(IF InSlice(st[i].ts, sl)
                  THEN [st[i] EXCEPT !.sped_adj =
                            Frac(basic_quantile_n(obs, sim, st[i].sped), Len(sim))]
                  ELSE st[i])])

RECURSIVE correct_slices(_, _, _, _)
correct_slices(st, obs, sls, i) ==
    IF i >= Len(sls) THEN st
    ELSE correct_slices(correct_slice(st, obs, sls[i]), obs, sls, i + 1)

\* line 135 and line 168: sped_adj starts as a copy of sped
with_sped_adj(st) ==
    Seq_([i \in 1..Len(st) |->
        [ts |-> st[i].ts, drct |-> st[i].drct, sped |-> st[i].sped,
         gust_mph |-> st[i].gust_mph, sped_adj |-> Whole(st[i].sped)]])

\* lines 111-188: bkps are the breakpoints found by the detector; returns
\* the adjusted frame and the changepoint log
adjust_station(st, bkps) ==
    IF Len(bkps) = 0
    THEN [station |-> with_sped_adj(st), changepoints |-> <<>>]
    ELSE LET dates == cpt_dates_of(st, bkps)
             sls   == slices_of(dates)
             obs   == SliceSped(st, sls[Len(sls)])
         IN  [station |-> correct_slices(with_sped_adj(st), obs, sls, 1),
              changepoints |-> used_dates(dates)]

----------------------------------------------------------------------------
(* Specification of adjust_station: one hourly observation in each of      *)
(* MaxMonths months, and the breakpoints the detector may report           *)

MaxMonths == 6

\* rpt.Pelt(jump=1): segments are at least min_size = 2 samples long
MinSize == 2

\* the months of a record without a gap, of one that resumes in March 1985
\* and of one that resumes in January 1986
Months(gap) ==
    [i \in 1..MaxMonths |->
        IF gap = 6 /\ i > 4 THEN <<1986, i - 4>>
        ELSE IF gap = 5 /\ i > 4 THEN <<1985, i - 2>>
        ELSE <<EpochYear, i>>]

\* the observation is made off hours after the start of the month
Timeline(gap, off) ==
    [i \in 1..MaxMonths |->
        TsOfDate(Months(gap)[i][1], Months(gap)[i][2]) + off]

AdjSpeeds == {0, 3000, 10000}

AdjInputs ==
    { [i \in 1..MaxMonths |->
          [ts |-> Timeline(gap, off)[i],
           drct |-> IF v[i] = 0 THEN 0 ELSE 90,
           sped |-> v[i],
           gust_mph |-> NaN]] :
        gap \in {0, 5, 6}, off \in {0, 1}, v \in [1..MaxMonths -> AdjSpeeds] }

\* the breakpoint lists algo.predict may return for n monthly means,
\* without the closing entry n
Breakpoints(n) ==
    {<<>>}
    \cup { <<a>> : a \in MinSize..(n - MinSize) }
    \cup { bk \in (MinSize..(n - MinSize)) \X (MinSize..(n - MinSize)) :
               bk[2] - bk[1] >= MinSize }

InitAdjust ==
    /\ pc = "start"
    /\ arg \in AdjInputs
    /\ station = arg
    /\ RawIdle
    /\ PrepIdle
    /\ PoolIdle

AdjustStation ==
    /\ pc = "start"
    /\ \E bkps \in Breakpoints(Len(monthly_means(station))) :
          /\ cpts' = bkps
          /\ station' = adjust_station(station, bkps).station
          /\ changepoints' = adjust_station(station, bkps).changepoints
    /\ pc' = "done"
    /\ UNCHANGED <<arg, spikes, dips, prepVars, poolVars>>

NextAdjust == AdjustStation

SpecAdjust == InitAdjust /\ [][NextAdjust]_vars

\* the slice whose mapping gives the row its adjusted speed: the last of
\* the historical slices sls that contain it (0 when there is none)
LastSlice(sls, ts) ==
    LET S == {i \in 1..(Len(sls) - 1) : InSlice(ts, sls[i])}
    IN  IF S = {} THEN 0 ELSE CHOOSE i \in S : \A j \in S : j <= i

\* the positions of the rows of st whose quantile-mapped value is below 0
MappedNegative(st, bkps) ==
    IF Len(bkps) = 0 THEN {}
    ELSE LET sls == slices_of(cpt_dates_of(st, bkps))
             obs == SliceSped(st, sls[Len(sls)])
         IN  { i \in 1..Len(st) :
                 /\ LastSlice(sls, st[i].ts) > 0
                 /\ basic_quantile_n(obs,
                        SliceSped(st, sls[LastSlice(sls, st[i].ts)]),
                        st[i].sped) < 0 }

----------------------------------------------------------------------------
(* read_and_process_csv (src/pipeline/process_raw.py) *)

SpeedCeiling == 110000
CalmFloor == 2300

\* line 209: station[station["sped"] < 110]; a missing speed compares false
below_ceiling(st) ==
    SelectSeq(st, LAMBDA r : r.sped # NaN /\ r.sped < SpeedCeiling)

\* lines 215-221: drop speed 0 with a known, nonzero direction
drop_contradictory(st) ==
    SelectSeq(st, LAMBDA r : ~(r.sped = 0 /\ r.drct # NaN /\ r.drct # 0))

\* a mutation of standardize_calm: a speed of exactly 2.3 is left alone
standardize_calm_strict(st) ==
    Seq_([i \in 1..Len(st) |->
            IF st[i].sped # NaN /\ st[i].sped < CalmFloor
            THEN [st[i] EXCEPT !.sped = 0, !.drct = 0] ELSE st[i]])

\* line 231: winds of 2.3 mph or less become calm (0 ws, 0 wd)
standardize_calm(st) ==
    Seq_([i \in 1..Len(st) |->
            IF st[i].sped # NaN /\ st[i].sped <= CalmFloor
            THEN [st[i] EXCEPT !.sped = 0, !.drct = 0] ELSE st[i]])

\* line 234: negative gusts become missing
drop_negative_gust(st) ==
    Seq_([i \in 1..Len(st) |->
            IF st[i].gust_mph # NaN /\ st[i].gust_mph < 0
            THEN [st[i] EXCEPT !.gust_mph = NaN] ELSE st[i]])

\* lines 207-234
normalize(st) ==
    drop_negative_gust(standardize_calm(drop_contradictory(below_ceiling(st))))

\* luts.decades
decades ==
    [y \in {1980, 1990, 2000, 2010} |->
        IF y = 1980 THEN "1980-1989"
        ELSE IF y = 1990 THEN "1990-1999"
        ELSE IF y = 2000 THEN "2000-2009" ELSE "2010-2019"]

\* lines 247-249: the decade label of a timestamp
decade_of(ts) ==
    LET S == {y \in DOMAIN decades : YearOf(ts) \in y..(y + 9)}
    IN  IF S = {} THEN "NaN" ELSE decades[CHOOSE y \in S : TRUE]

add_decade(st) ==
    Seq_([i \in 1..Len(st) |->
            [ts |-> st[i].ts, drct |-> st[i].drct, sped |-> st[i].sped,
             gust_mph |-> st[i].gust_mph, sped_adj |-> st[i].sped_adj,
             decade |-> decade_of(st[i].ts)]])

----------------------------------------------------------------------------
(* Specification of read_and_process_csv: one station file of MaxRows      *)
(* reports, the first two within the same hour, the others a month apart   *)

MaxRows == 5

\* the valid time, in minutes, of the report on line i of the file
ValidOf(i) ==
    IF i = 1 THEN 0
    ELSE IF i = 2 THEN 20
    ELSE MinutesPerHour * TsOfDate(EpochYear + (i - 2) \div 12,
                                   1 + ((i - 2) % 12))

\* the (speed, direction) pairs a report may carry
CleanKinds ==
    { <<0, 90>>, <<CalmFloor, NaN>>, <<CalmFloor + 100, 90>>,
      <<60000, 90>>, <<SpeedCeiling, 90>> }

CleanInputs ==
    { [i \in 1..MaxRows |->
          [valid |-> ValidOf(i), drct |-> k[i][2], sped |-> k[i][1],
           gust_mph |-> NaN]] : k \in [1..MaxRows -> CleanKinds] }

InitClean ==
    /\ pc = "read"
    /\ arg \in CleanInputs
    /\ station = arg
    /\ RawIdle
    /\ PrepIdle
    /\ PoolIdle

\* lines 207-234
CleanNormalize ==
    /\ pc = "read"
    /\ station' = normalize(station)
    /\ pc' = "normalized"
    /\ UNCHANGED <<arg, spikes, dips, cpts, changepoints, prepVars, poolVars>>

\* line 238
CleanFilterToHour ==
    /\ pc = "normalized"
    /\ station' = filter_to_hour(station)
    /\ pc' = "hourly"
    /\ UNCHANGED <<arg, spikes, dips, cpts, changepoints, prepVars, poolVars>>

\* line 241
CleanFilterSpurious ==
    /\ pc = "hourly"
    /\ LET out == filter_spurious(station)
       IN  /\ station' = out.station
           /\ spikes' = out.spikes
           /\ dips' = out.dips
    /\ pc' = "filtered"
    /\ UNCHANGED <<arg, cpts, changepoints, prepVars, poolVars>>

\* line 244
CleanAdjustStation ==
    /\ pc = "filtered"
    /\ Len(station) > 0
    /\ \E bkps \in Breakpoints(Len(monthly_means(station))) :
          LET out == adjust_station(station, bkps)
          IN  /\ cpts' = bkps
              /\ station' = out.station
              /\ changepoints' = out.changepoints
    /\ pc' = "adjusted"
    /\ UNCHANGED <<arg, spikes, dips, prepVars, poolVars>>

\* line 244 on a file with no observation left: the detector is fitted on
\* an empty signal and the call does not return
CleanAdjustEmpty ==
    /\ pc = "filtered"
    /\ Len(station) = 0
    /\ pc' = "raised"
    /\ UNCHANGED <<arg, station, spikes, dips, cpts,
                   changepoints, prepVars, poolVars>>

\* lines 247-251
CleanAddDecade ==
    /\ pc = "adjusted"
    /\ station' = add_decade(station)
    /\ pc' = "done"
    /\ UNCHANGED <<arg, spikes, dips, cpts, changepoints, prepVars, poolVars>>

NextClean ==
    \/ CleanNormalize
    \/ CleanFilterToHour
    \/ CleanFilterSpurious
    \/ CleanAdjustStation
    \/ CleanAdjustEmpty
    \/ CleanAddDecade

SpecClean == InitClean /\ [][NextClean]_vars

\* C4: in the cleaned stream, and after each later step of
\* read_and_process_csv, a raw speed of 2.3 mph or less is exactly 0 and
\* has direction exactly 0
C4_CalmNormalized ==
    pc \in {"normalized", "hourly", "filtered", "adjusted", "done"} =>
        \A r \in Range(station) :
            r.sped <= CalmFloor => r.sped = 0 /\ r.drct = 0

\* a report of 2.3 mph with unknown direction came out calm, in a file
\* where a breakpoint was corrected
C4_Witness ==
    /\ pc = "done"
    /\ \E i \in 1..Len(arg) :
          /\ arg[i].sped = CalmFloor
          /\ arg[i].drct = NaN
          /\ \E r \in Range(station) :
                /\ r.ts = round_H(arg[i].valid)
                /\ r.sped = 0
                /\ r.drct = 0
    /\ cpts # <<>>

----------------------------------------------------------------------------
(* chunk_to_rose (src/pipeline/preprocess.py).  Directions are in whole    *)
(* degrees, direction classes in tenths (the coarse class 4.5 is 45) and   *)
(* frequencies in hundredths of a percent.                                 *)
(* In the frames of the aggregation stage a row stands for a block of      *)
(* observations that differ only in their timestamps: per_day consecutive  *)
(* hourly observations starting at ts, on each of `days` consecutive days. *)
(* A single observation is a block with days = 1 and per_day = 1.          *)

\* the number of observations of a block
nobs(r) == r.days * r.per_day

\* len(df.index)
size(df) == SeqSum(Seq_([i \in 1..Len(df) |-> nobs(df[i])]))

\* luts.speed_ranges, in thousandths of a mph
speed_ranges ==
    << [name |-> "0-6",   lo |-> 1,     hi |-> 6000],
       [name |-> "6-10",  lo |-> 6000,  hi |-> 10000],
       [name |-> "10-14", lo |-> 10000, hi |-> 14000],
       [name |-> "14-18", lo |-> 14000, hi |-> 18000],
       [name |-> "18-22", lo |-> 18000, hi |-> 22000],
       [name |-> "22+",   lo |-> 22000, hi |-> 1000000] >>

\* Series.between(lo, hi, inclusive=True)
between(ws, lo, hi) == lo <= ws /\ ws <= hi

\* a mutation of fine_class: the bins are closed on the left
fine_class_left(wd) ==
    IF wd < 5 \/ wd >= 355 THEN 0 ELSE 10 * ((wd + 5) \div 10)

\* line 92 with bins 5, 15, .., 355 and labels 1..35: class n covers
\* (10n - 5, 10n + 5]; the directions outside the bins get the class "0"
fine_class(wd) ==
    IF wd <= 5 \/ wd > 355 THEN 0 ELSE 10 * ((wd + 4) \div 10)

\* line 92 with bins 22.5, 67.5, .., 337.5 and labels 4.5, 9, .., 31.5
coarse_class(wd) ==
    IF 2 * wd <= 45 \/ 2 * wd > 675 THEN 0 ELSE 45 * ((2 * wd + 44) \div 90)

direction_class(wd, coarse) ==
    IF coarse THEN coarse_class(wd) ELSE fine_class(wd)

\* the categories of the cut, in category order: the labels, then "0"
categories(coarse) ==
    IF coarse THEN [i \in 1..8 |-> IF i = 8 THEN 0 ELSE 45 * i]
    ELSE [i \in 1..36 |-> IF i = 36 THEN 0 ELSE 10 * i]

\* round(n / d) to the nearest integer, a half to the even one
RoundHalfEven(n, d) ==
    LET q == n \div d
        r == n % d
    IN  IF 2 * r < d THEN q
        ELSE IF 2 * r > d THEN q + 1
        ELSE IF q % 2 = 0 THEN q ELSE q + 1

\* lines 112-116: round(count / full_count * 100, 2)
frequency_of(count, full_count) ==
    IF full_count > 0 THEN RoundHalfEven(count * 10000, full_count) ELSE 0

\* lines 102-112: the rows of a direction class within a speed bucket
bucket_count(st, coarse, class, b) ==
    size(SelectSeq(st, LAMBDA r :
                    /\ direction_class(r.wd, coarse) = class
                    /\ between(r.ws, speed_ranges[b].lo,
                               speed_ranges[b].hi)))

\* lines 118-130: one accumulator row
rose_row(st, coarse, class, b) ==
    [sid |-> st[1].sid,
     direction_class |-> class,
     speed_range |-> speed_ranges[b].name,
     count |-> bucket_count(st, coarse, class, b),
     frequency |-> frequency_of(bucket_count(st, coarse, class, b), size(st)),
     decade |-> st[1].decade,
     month |-> st[1].month,
     coarse |-> coarse]

\* lines 98-130: the rows of one resolution, direction class by direction
\* class and bucket by bucket
rose_rows(st, coarse) ==
    LET cats == categories(coarse)
        nb   == Len(speed_ranges)
    IN  Seq_([n \in 1..(Len(cats) * nb) |->
                rose_row(st, coarse, cats[1 + (n - 1) \div nb],
                         1 + ((n - 1) % nb))])

\* lines 62-136: fine resolution first, then coarse
chunk_to_rose(st) == rose_rows(st, FALSE) \o rose_rows(st, TRUE)

----------------------------------------------------------------------------
(* Specification of chunk_to_rose: one station/grouping subset *)

MaxObs == 3

ChunkDirections == {10, 90, 360}

ChunkSpeeds == {500, 6000, 8000, 22000}

ChunkInputs ==
    SeqsUpTo([sid : {"PAFA"}, decade : {"none"}, month : {0},
              days : {1}, per_day : {1},
              wd : ChunkDirections, ws : ChunkSpeeds], MaxObs) \ {<<>>}

InitChunk ==
    /\ pc = "start"
    /\ arg \in ChunkInputs
    /\ station = arg
    /\ RawIdle
    /\ PrepIdle
    /\ PoolIdle

ChunkToRose ==
    /\ pc = "start"
    /\ roses' = chunk_to_rose(station)
    /\ pc' = "done"
    /\ UNCHANGED <<arg, station, rawVars, calms, rm_df,
                   iter_k, exceedance, ret, poolVars>>

NextChunk == ChunkToRose

SpecChunk == InitChunk /\ [][NextChunk]_vars

\* the sum of the frequencies of the rows of one resolution
FrequencySum(rs, coarse) ==
    SeqSum(Seq_([i \in 1..Len(rs) |->
               IF rs[i].coarse = coarse THEN rs[i].frequency ELSE 0]))

\* C5: for each resolution, the rounded frequencies of the rows returned by
\* chunk_to_rose sum to 100 within 0.1 (10 hundredths of a percent)
C5_FrequenciesSumTo100 ==
    pc = "done" =>
        \A coarse \in BOOLEAN :
            Abs(FrequencySum(roses, coarse) - 10000) <= 10

----------------------------------------------------------------------------
(* scipy.stats.ks_2samp on two samples of at most 10000 values: the exact  *)
(* two-sided p-value.  With m and n the sample sizes, the statistic is     *)
(* d / (m * n) and p = 1 - inside / total, where inside counts the lattice *)
(* paths from (0, 0) to (m, n) on which |i / m - j / n| stays below the    *)
(* statistic, and total counts all the paths.                              *)

\* m * n * max |F1 - F2| for the samples a and b
ks_statistic(a, b) ==
    LET m == Len(a)
        n == Len(b)
        below(s, x) == Cardinality({i \in 1..Len(s) : s[i] <= x})
        D == { Abs(n * below(a, x) - m * below(b, x)) :
                 x \in Range(a) \cup Range(b) }
    IN  CHOOSE d \in D : \A e \in D : e <= d

\* row j of the path counts, cell by cell from the row below
RECURSIVE PathRow(_, _, _, _, _, _)
PathRow(m, n, d, j, prev, acc) ==
    LET i == Len(acc)
    IN  IF i > m THEN acc
        ELSE PathRow(m, n, d, j, prev,
                 Append(acc,
                     IF Abs(n * i - m * j) >= d THEN 0
                     ELSE IF i = 0 /\ j = 0 THEN 1
                     ELSE (IF i > 0 THEN acc[i] ELSE 0)
                          + (IF j > 0 THEN prev[i + 1] ELSE 0)))

RECURSIVE PathRows(_, _, _, _, _)
PathRows(m, n, d, j, prev) ==
    IF j > n THEN prev[m + 1]
    ELSE PathRows(m, n, d, j + 1, PathRow(m, n, d, j, prev, <<>>))

\* the paths that stay strictly inside the band of half-width d / (m * n)
inside_paths(m, n, d) == PathRows(m, n, d, 0, <<>>)

total_paths(m, n) == inside_paths(m, n, m * n + 1)

\* pval >= num / den
pval_at_least(a, b, num, den) ==
    LET m == Len(a)
        n == Len(b)
        d == ks_statistic(a, b)
    IN  \/ d = 0
        \/ den * (total_paths(m, n) - inside_paths(m, n, d))
              >= num * total_paths(m, n)

----------------------------------------------------------------------------
(* adjust_sampling (src/pipeline/preprocess.py) *)

\* line 150: ts.dt.hour
hour_of(ts) == ts % HoursPerDay

\* line 151: hour + (dayofyear - 1) * 24
hoy_of(ts) == ts - TsOfDate(YearOf(ts), 1)

\* the elements of a set of integers in ascending order
RECURSIVE Ascending(_)
Ascending(S) ==
    IF S = {} THEN <<>>
    ELSE LET m == SetMin(S) IN <<m>> \o Ascending(S \ {m})

\* the first years of the decades of a frame, ascending (the order in which
\* groupby("decade") yields the groups)
decade_names(st) ==
    Ascending({ y \in DOMAIN decades :
                  \E i \in 1..Len(st) : st[i].decade = decades[y] })

\* the rows of the n-th decade of the frame
decade_rows(st, n) ==
    SelectSeq(st, LAMBDA r : r.decade = decades[decade_names(st)[n]])

hours_of(rows) == Seq_([i \in 1..Len(rows) |-> hour_of(rows[i].ts)])

\* a mutation of parity: the test is made at the 1 % level
parity_1pct(st) ==
    pval_at_least(hours_of(decade_rows(st, 1)), hours_of(decade_rows(st, 2)),
                  1, 100)

\* lines 153-155 and 216-217 with line 183: ks_2samp on the hours of the
\* two decades gives pval >= 0.05
parity(st) ==
    pval_at_least(hours_of(decade_rows(st, 1)), hours_of(decade_rows(st, 2)),
                  5, 100)

\* lines 185-194: the number of observations of a decade at an hour of year
hoy_count(rows, h) == Cardinality({i \in 1..Len(rows) : hoy_of(rows[i].ts) = h})

\* a mutation of prune_hoy: every hour of year at which rows1 has an
\* observation
prune_hoy_any(rows1, rows2) ==
    { h \in {hoy_of(rows1[i].ts) : i \in 1..Len(rows1)} :
        hoy_count(rows1, h) > 0 }

\* lines 198-199: the hours of year at which rows1 has more observations
prune_hoy(rows1, rows2) ==
    { h \in {hoy_of(rows1[i].ts) : i \in 1..Len(rows1)} :
        hoy_count(rows1, h) - hoy_count(rows2, h) > 0 }

\* a mutation of choices: every timestamp of the decade at the hours of
\* year to prune is drawn
choices_all(rows, H) ==
    { { rows[i].ts : i \in { j \in 1..Len(rows) : hoy_of(rows[j].ts) \in H } } }

\* lines 202-207: the sets of timestamps random.choice may draw, one
\* timestamp of the decade for each of its hours of year to prune
choices(rows, H) ==
    { {f[h] : h \in H} :
        f \in { g \in [H -> {rows[i].ts : i \in 1..Len(rows)}] :
                  \A h \in H : hoy_of(g[h]) = h } }

\* a mutation of discarded: the iterations are numbered from 0
discarded_from_0(st, rm_ts, n) ==
    { [sid |-> r.sid, ts |-> r.ts, decade |-> r.decade, iter |-> n - 1] :
        r \in {q \in Range(st) : q.ts \in rm_ts} }

\* lines 210-213: the discarded rows, with the iteration number
discarded(st, rm_ts, n) ==
    { [sid |-> r.sid, ts |-> r.ts, decade |-> r.decade, iter |-> n] :
        r \in {q \in Range(st) : q.ts \in rm_ts} }

----------------------------------------------------------------------------
(* Specification of adjust_sampling: the observations of one station in an *)
(* older decade and in the 2010s, at a few hours of the year               *)

MaxOld == 4

MaxNew == 6

\* hours of year: hours 0, 1 and 2 of January 1st and hour 0 of January 2nd
SampleHoys == {0, 1, 2, 24}

CountVectors(max) ==
    { c \in [SampleHoys -> 0..max] :
        LET total == c[0] + c[1] + c[2] + c[24]
        IN  total >= 1 /\ total <= max }

\* c[h] observations at hour of year h, in the first c[h] years from year0
RowsOf(c, year0) ==
    LET S == { <<h, n>> \in SampleHoys \X (0..Max2(MaxOld, MaxNew)) : n < c[h] }
        ts(e) == TsOfDate(year0 + e[2], 1) + e[1]
        T == Ascending({ ts(e) : e \in S })
    IN  [i \in 1..Len(T) |->
            [sid |-> "PAFA", ts |-> T[i], decade |-> decade_of(T[i])]]

SamplingInputs ==
    { Seq_(RowsOf(c1, 1980)) \o Seq_(RowsOf(c2, 2010)) :
        c1 \in CountVectors(MaxOld), c2 \in CountVectors(MaxNew) }

InitSampling ==
    /\ pc = "start"
    /\ arg \in SamplingInputs
    /\ station = arg
    /\ RawIdle
    /\ PrepIdle
    /\ PoolIdle

\* lines 150-157: the quick check
SamplingQuickReturn ==
    /\ pc = "start"
    /\ parity(station)
    /\ pc' = "done"
    /\ UNCHANGED <<arg, station, rawVars, prepVars, poolVars>>

\* lines 159-183: the test fails, enter the loop
SamplingEnterLoop ==
    /\ pc = "start"
    /\ ~parity(station)
    /\ iter_k' = 1
    /\ pc' = "loop"
    /\ UNCHANGED <<arg, station, rawVars, roses, calms,
                   rm_df, exceedance, ret, poolVars>>

\* lines 185-217: one pass of the loop, with the re-test
SamplingPrune ==
    /\ pc = "loop"
    /\ LET d1_station == decade_rows(station, 1)
           d2_station == decade_rows(station, 2)
       IN  \E rm1 \in choices(d1_station, prune_hoy(d1_station, d2_station)),
              rm2 \in choices(d2_station, prune_hoy(d2_station, d1_station)) :
              LET rm_ts == rm1 \cup rm2
                  left  == DropIdx(station, rm_ts)
              IN  /\ rm_df' = rm_df \cup discarded(station, rm_ts, iter_k)
                  /\ iter_k' = iter_k + 1
                  /\ station' = left
                  \* line 216: d1, d2 = groupby("decade") needs both decades
                  /\ pc' = IF Len(decade_names(left)) # 2 THEN "raised"
                           ELSE IF parity(left) THEN "done" ELSE "loop"
    /\ UNCHANGED <<arg, rawVars, roses, calms, exceedance, ret, poolVars>>

NextSampling == SamplingQuickReturn \/ SamplingEnterLoop \/ SamplingPrune

SpecSampling == InitSampling /\ [][NextSampling]_vars

\* C6: whenever adjust_sampling returns, the KS test on the hour of day
\* between the two decades of the returned data has p >= 0.05
C6_ReturnedDataPassesTest ==
    pc = "done" =>
        /\ Len(decade_names(station)) = 2
        /\ pval_at_least(hours_of(decade_rows(station, 1)),
                         hours_of(decade_rows(station, 2)), 5, 100)

\* adjust_sampling returned after at least one pruning iteration
C6_Witness ==
    /\ pc = "done"
    /\ iter_k > 1
    /\ rm_df # {}

\* C7: adjust_sampling never raises: the loop never leaves a decade
\* without observations
C7_NeverEmptiesDecade == pc # "raised"

----------------------------------------------------------------------------
(* check_sufficient_comparison_rose_data.is_sufficient                      *)
(* (src/pipeline/preprocess.py).  The frame of one decade is represented   *)
(* by the year of its first row and by what ts.dt.date.value_counts()      *)
(* holds: days[k] is the number of calendar days with k observations,      *)
(* k in 1..24.  r1 and r2 are fractions [n, d].                            *)

\* line 21: the defaults r1 = 0.25 and r2 = 0.75
R1 == [n |-> 25, d |-> 100]

R2 == [n |-> 75, d |-> 100]

\* line 39: int(str(year of the first row)[:3] + "0")
dyear_of(df) == (df.first_year \div 10) * 10

\* lines 40-42: (dyear + 9)-12-31 minus dyear-01-01, in days
ndays_of(dyear) == (DayOfDate(dyear + 9, 12) + 30) - DayOfDate(dyear, 1)

\* line 43: (value_counts() / 24 > r1).sum()
sufficient_days(df, r1) ==
    SeqSum(Seq_([k \in 1..HoursPerDay |->
                   IF k * r1.d > HoursPerDay * r1.n THEN df.days[k] ELSE 0]))

\* line 43: ... / ndays > r2
is_sufficient(df, r1, r2) ==
    sufficient_days(df, r1) * r2.d > r2.n * ndays_of(dyear_of(df))

----------------------------------------------------------------------------
(* Specification of is_sufficient: decades whose days hold 5 to MaxPerDay   *)
(* observations each                                                       *)

MaxPerDay == 7

\* numbers of days: none, a quarter, around three quarters, all of a decade
DayGrid == {0, 913, 2738, 2739, 2740, 3652}

FirstYears == {1980, 1985, 1991, 2010, 2013}

\* the days from the first of January of year y to the end of its decade
DaysLeft(y) == DayOfDate(((y \div 10) * 10) + 10, 1) - DayOfDate(y, 1)

SufficientInputs ==
    { [first_year |-> y,
       days |-> Seq_([k \in 1..HoursPerDay |->
                        IF k \in 5..MaxPerDay THEN h[k] ELSE 0])] :
        y \in FirstYears,
        h \in { g \in [5..MaxPerDay -> DayGrid] :
                  LET total == SeqSum(Seq_([i \in 1..(MaxPerDay - 4)
                                              |-> g[4 + i]]))
                  IN  \E z \in FirstYears : total >= 1 /\ total <= DaysLeft(z) } }

InitSufficient ==
    /\ pc = "start"
    /\ arg \in {df \in SufficientInputs :
                  SeqSum(df.days) <= DaysLeft(df.first_year)}
    /\ station = <<>>
    /\ RawIdle
    /\ PrepIdle
    /\ PoolIdle

IsSufficient ==
    /\ pc = "start"
    /\ ret' = is_sufficient(arg, R1, R2)
    /\ pc' = "done"
    /\ UNCHANGED <<arg, station, rawVars, roses, calms,
                   rm_df, iter_k, exceedance, poolVars>>

NextSufficient == IsSufficient

SpecSufficient == InitSufficient /\ [][NextSufficient]_vars

\* C8: the sufficiency check returns true exactly when at least an r2
\* fraction of the days of the decade each have observations in at least an
\* r1 fraction of the 24 hourly slots (a day with exactly 6 observations
\* meets r1 = 0.25; exactly r2 of the days is sufficient)
C8_SufficientIffFractions ==
    pc = "done" =>
        LET dyear == (arg.first_year \div 10) * 10
            decade_days == DayOfDate(dyear + 10, 1) - DayOfDate(dyear, 1)
            meeting == SeqSum(Seq_([k \in 1..HoursPerDay |->
                          IF 100 * k >= 25 * HoursPerDay
                          THEN arg.days[k] ELSE 0]))
        IN  ret <=> (100 * meeting >= 75 * decade_days)

----------------------------------------------------------------------------
(* crosswind_component, exceedance_frequencies, compute_exceedance and the *)
(* thresholds of process_crosswinds (src/pipeline/preprocess.py).  Wind    *)
(* speeds ws are in thousandths of a mph, crosswinds and thresholds in     *)
(* hundredths of a mph, exceedances in hundredths of a percent.            *)

\* 10000 * sin(a degrees), a a multiple of 10 in 0..180
SinE4(a) ==
    <<0, 1736, 3420, 5000, 6428, 7660, 8660, 9397, 9848, 10000,
      9848, 9397, 8660, 7660, 6428, 5000, 3420, 1736, 0>>[(a \div 10) + 1]

\* lines 430-433: round(abs(sin(radians(angle)) * ws), 2)
crosswind_component(ws, wd, d) ==
    LET angle == (((wd - d) + 180) % 360) - 180
    IN  RoundHalfEven(SinE4(Abs(angle)) * ws, 100000)

\* a mutation of exceeds: the crosswinds below the threshold are counted
exceeds_below(crosswind, threshold) == crosswind < threshold

\* line 441: crosswinds > threshold
exceeds(crosswind, threshold) == crosswind > threshold

\* lines 438-442: round(count / n, 4) * 100 for one threshold
exceedance_frequency(winds, d, threshold) ==
    LET n == Len(winds)
        count == Cardinality({ i \in 1..n :
                    exceeds(crosswind_component(winds[i].ws, winds[i].wd, d),
                            threshold) })
    IN  RoundHalfEven(count * 10000, n)

\* line 447: np.arange(0, 180, 10)
directions == [i \in 1..18 |-> 10 * (i - 1)]

\* line 477: np.round(np.array([10.5, 13, 16]) * 1.15078, 2)
thresholds ==
    LET kts == <<105, 130, 160>>
    IN  Seq_([i \in 1..3 |-> RoundHalfEven(kts[i] * 115078, 10000)])

\* src/luts.py exceedance_classes
exceedance_classes ==
    <<"A-I and B-I", "A-II and B-II",
      "A-III, B-III, C-I through D-III, D-I through D-III">>

\* lines 445-462: one row per direction and threshold, thresholds fastest
compute_exceedance(st, thr) ==
    Seq_([j \in 1..(Len(directions) * Len(thr)) |->
            LET d == directions[((j - 1) \div Len(thr)) + 1]
                t == ((j - 1) % Len(thr)) + 1
            IN  [sid |-> st[1].sid,
                 direction |-> d,
                 threshold |-> thr[t],
                 rdc_class |-> exceedance_classes[t],
                 exceedance |-> exceedance_frequency(st, d, thr[t])]])

----------------------------------------------------------------------------
(* Specification of compute_exceedance on one station of 1..MaxWinds       *)
(* observations                                                            *)

MaxWinds == 2

WindSpeeds == {0, 5000, 13000, 16000, 20000, 30000}

WindDirections == {0, 10, 90, 200, 360}

\* calm rows have speed and direction 0, the others a direction 10..360
WindRows ==
    { [sid |-> "PAFA", ws |-> w, wd |-> d] :
        <<w, d>> \in { e \in WindSpeeds \X WindDirections :
                         (e[1] = 0) <=> (e[2] = 0) } }

WindInputs == UNION { [1..n -> WindRows] : n \in 1..MaxWinds }

InitCrosswind ==
    /\ pc = "start"
    /\ arg \in WindInputs
    /\ station = arg
    /\ RawIdle
    /\ PrepIdle
    /\ PoolIdle

ComputeExceedance ==
    /\ pc = "start"
    /\ exceedance' = compute_exceedance(station, thresholds)
    /\ pc' = "done"
    /\ UNCHANGED <<arg, station, rawVars, roses, calms,
                   rm_df, iter_k, ret, poolVars>>

NextCrosswind == ComputeExceedance

SpecCrosswind == InitCrosswind /\ [][NextCrosswind]_vars

\* C9: for the station and every runway direction 0, 10, ..., 170 the
\* emitted exceedances do not increase as the threshold increases over
\* 12.08, 14.96 and 18.41 mph
C9_ExceedanceMonotone ==
    pc = "done" =>
        /\ \A d \in {10 * i : i \in 0..17} :
             \E j \in 1..Len(exceedance) : exceedance[j].direction = d
        /\ \A i, j \in 1..Len(exceedance) :
             /\ exceedance[i].direction = exceedance[j].direction
             /\ exceedance[i].threshold < exceedance[j].threshold
             => exceedance[i].exceedance >= exceedance[j].exceedance

\* a direction at which the three exceedances are emitted and differ
C9_Witness ==
    /\ pc = "done"
    /\ \E i, j \in 1..Len(exceedance) :
         /\ exceedance[i].direction = exceedance[j].direction
         /\ exceedance[i].threshold = 1208
         /\ exceedance[j].threshold = 1841
         /\ exceedance[i].exceedance > exceedance[j].exceedance
         /\ exceedance[j].exceedance > 0

----------------------------------------------------------------------------
(* process_roses (src/pipeline/preprocess.py), on frames of blocks.  The   *)
(* frame `stations` holds the rows of all the stations, station after      *)
(* station; a missing speed or direction is NaN.                           *)

\* the station identifiers, in ascending order
StationIds ==
    <<"PAAA", "PABB", "PACC", "PADD", "PAEE", "PAFF", "PAGG", "PAHH", "PAII">>

\* the keys in df of the groups of groupby("sid"), ascending
sids_of(df) ==
    SelectSeq(StationIds, LAMBDA sid : \E i \in 1..Len(df) : df[i].sid = sid)

\* the group of one station
of_sid(df, sid) == SelectSeq(df, LAMBDA r : r.sid = sid)

\* pd.concat of a list of frames
RECURSIVE concat(_)
concat(dfs) == IF dfs = <<>> THEN <<>> ELSE Head(dfs) \o concat(Tail(dfs))

\* line 247: dropna() on the columns left after dropping gust_mph
dropna(df) == SelectSeq(df, LAMBDA r : r.ws # NaN /\ r.wd # NaN)

\* lines 251-252 and 288: the stations whose first observation is older
\* than the cutoff
keep_sids(df, cutoff) ==
    { sid \in Range(sids_of(df)) :
        SetMin({ r.ts : r \in Range(of_sid(df, sid)) }) < cutoff }

isin(df, sids) == SelectSeq(df, LAMBDA r : r.sid \in sids)

\* lines 254-262: the summary frame, without the calms
summary_stations(stations) ==
    LET kept == isin(stations, keep_sids(stations, TsOfDate(2010, 6)))
        none == Seq_([i \in 1..Len(kept) |->
                        [kept[i] EXCEPT !.decade = "none", !.month = 0]])
    IN  SelectSeq(none, LAMBDA r : r.wd # 0)

\* the frames of df.groupby("sid")
by_sid(df) ==
    LET sids == sids_of(df)
    IN  Seq_([i \in 1..Len(sids) |-> of_sid(df, sids[i])])

\* pool.map(chunk_to_rose, station_dfs), in the order of station_dfs
map_chunk_to_rose(dfs) == Seq_([i \in 1..Len(dfs) |-> chunk_to_rose(dfs[i])])

\* the first day after month m of year y
MonthEnd(y, m) == IF m = 12 THEN DayOfDate(y + 1, 1) ELSE DayOfDate(y, m + 1)

\* the first and the number of the days of block r that fall in month m of
\* year y
days_in(r, y, m) ==
    LET first == r.ts \div HoursPerDay
        lo == Max2(first, DayOfDate(y, m))
        hi == Min2(first + r.days, MonthEnd(y, m))
    IN  [first |-> lo, days |-> Max2(0, hi - lo)]

\* the observations of block r that fall in calendar month m, any year
month_part(r, m) ==
    LET y0 == YearOf(r.ts)
        y1 == YearOf(r.ts + HoursPerDay * (r.days - 1))
        parts == Seq_([i \in 1..(y1 - y0 + 1) |-> days_in(r, y0 + i - 1, m)])
        total == SeqSum(Seq_([i \in 1..Len(parts) |-> parts[i].days]))
        some  == SelectSeq(parts, LAMBDA q : q.days > 0)
    IN  IF total = 0 THEN <<>>
        ELSE << [r EXCEPT !.month = m, !.days = total,
                   !.ts = HoursPerDay * some[1].first + hour_of(r.ts)] >>

\* lines 275 and 378: month = ts.dt.month, and the frames of
\* groupby(["sid", "month"]), ascending
by_sid_month(df) ==
    LET monthly(g) ==
            SelectSeq(Seq_([m \in 1..12 |->
                         concat(Seq_([i \in 1..Len(g) |-> month_part(g[i], m)]))]),
                      LAMBDA f : f # <<>>)
        groups == by_sid(df)
    IN  concat(Seq_([i \in 1..Len(groups) |-> monthly(groups[i])]))

\* df.ts.dt.date.value_counts() of a frame of blocks, as is_sufficient
\* reads it: the year of the first row and, for k in 1..24, the number of
\* dates with k observations
value_counts_of(df) ==
    LET first(r) == r.ts \div HoursPerDay
        B == Ascending({first(r) : r \in Range(df)}
                       \cup {first(r) + r.days : r \in Range(df)})
        covering(d) ==
            SeqSum(Seq_([i \in 1..Len(df) |->
                      IF first(df[i]) <= d /\ d < first(df[i]) + df[i].days
                      THEN df[i].per_day ELSE 0]))
        span(k) ==
            SeqSum(Seq_([j \in 1..(Len(B) - 1) |->
                      IF covering(B[j]) = k THEN B[j + 1] - B[j] ELSE 0]))
    IN  [first_year |-> YearOf(df[1].ts),
         days |-> Seq_([k \in 1..HoursPerDay |-> span(k)])]

\* the group of one decade, and whether groupby("decade") has it
of_decade(df, decade) == SelectSeq(df, LAMBDA r : r.decade = decade)

\* what the function returns in place of a frame
None == <<>>

\* a mutation of check_sufficient_comparison_rose_data: the most recent of
\* the old decades with sufficient data is returned
check_sufficient_most_recent(st) ==
    LET recent_data == of_decade(st, "2010-2019")
        old_decades == SelectSeq(<<"1990-1999", "1980-1989">>,
                                 LAMBDA d : of_decade(st, d) # <<>>)
        good == SelectSeq(old_decades, LAMBDA d :
                    is_sufficient(value_counts_of(of_decade(st, d)), R1, R2))
    IN  IF recent_data = <<>> THEN None
        ELSE IF ~is_sufficient(value_counts_of(recent_data), R1, R2) THEN None
        ELSE IF good = <<>> THEN None
        ELSE of_decade(st, good[1]) \o recent_data

\* lines 45-59, with the defaults r1 and r2 of line 21
check_sufficient_comparison_rose_data(st) ==
    LET recent_data == of_decade(st, "2010-2019")
        old_decades == SelectSeq(<<"1980-1989", "1990-1999">>,
                                 LAMBDA d : of_decade(st, d) # <<>>)
        good == SelectSeq(old_decades, LAMBDA d :
                    is_sufficient(value_counts_of(of_decade(st, d)), R1, R2))
    IN  IF recent_data = <<>> THEN None
        ELSE IF ~is_sufficient(value_counts_of(recent_data), R1, R2) THEN None
        ELSE IF good = <<>> THEN None
        ELSE of_decade(st, good[1]) \o recent_data

\* the number of observations of df at hours of day <= x
hours_upto(df, x) ==
    SeqSum(Seq_([i \in 1..Len(df) |->
              df[i].days * Max2(0, Min2(df[i].per_day,
                                        x - hour_of(df[i].ts) + 1))]))

\* line 153: the statistic of ks_2samp on the hours of two decades is 0,
\* their distributions of the hour of day are the same
same_hours(d1, d2) ==
    LET lowest(n, d) == <<n \div GCD(n, d), d \div GCD(n, d)>>
    IN  \A x \in 0..(HoursPerDay - 1) :
            lowest(hours_upto(d1, x), size(d1))
                = lowest(hours_upto(d2, x), size(d2))

\* lines 289-301: the frames of the stations that allow a comparison
compare_station_dfs(stations) ==
    LET kept == isin(stations, keep_sids(stations, TsOfDate(1991, 1)))
        zero == Seq_([i \in 1..Len(kept) |-> [kept[i] EXCEPT !.month = 0]])
        checked == Seq_([i \in 1..Len(by_sid(zero)) |->
                       check_sufficient_comparison_rose_data(by_sid(zero)[i])])
    IN  SelectSeq(checked, LAMBDA df : df # None)

\* lines 316-325: without the calms, one frame per station and decade
compare_chunks(dfs) ==
    LET windy(df) == SelectSeq(df, LAMBDA r : r.wd # 0)
        by_decade(df) ==
            SelectSeq(Seq_([i \in 1..Len(decade_names(df)) |->
                              of_decade(df, decades[decade_names(df)[i]])]),
                      LAMBDA f : f # <<>>)
    IN  concat(Seq_([i \in 1..Len(dfs) |-> by_decade(windy(dfs[i]))]))

----------------------------------------------------------------------------
(* process_calms (src/pipeline/preprocess.py).  percent is in tenths of a  *)
(* percent.                                                                *)

\* the observations with speed 0
calm_rows(df) == SelectSeq(df, LAMBDA r : r.ws = 0)

\* lines 364-371, 379-388, 398-406: size() of the groups, the inner merge
\* with size() of their calm rows, and round(calm / total, 3) * 100
calm_records(groups) ==
    LET with_calm == SelectSeq(groups, LAMBDA g : calm_rows(g) # <<>>)
    IN  Seq_([i \in 1..Len(with_calm) |->
                LET g == with_calm[i]
                IN  [sid |-> g[1].sid, month |-> g[1].month,
                     decade |-> g[1].decade, total |-> size(g),
                     calm |-> size(calm_rows(g)),
                     percent |-> RoundHalfEven(size(calm_rows(g)) * 1000,
                                               size(g))]])

\* the frames of groupby(["sid", "decade"]), ascending
by_sid_decade(df) ==
    LET groups == by_sid(df)
        by_decade(g) ==
            Seq_([i \in 1..Len(decade_names(g)) |->
                    of_decade(g, decades[decade_names(g)[i]])])
    IN  concat(Seq_([i \in 1..Len(groups) |-> by_decade(groups[i])]))

\* lines 356-425
process_calms(stations, rs) ==
    LET in_roses == dropna(isin(stations, {rs[i].sid : i \in 1..Len(rs)}))
        none(df) == Seq_([i \in 1..Len(df) |->
                            [df[i] EXCEPT !.decade = "none", !.month = 0]])
        summary == calm_records(by_sid(none(in_roses)))
        monthly == calm_records(by_sid_month(none(in_roses)))
        compare_sids == { rs[i].sid : i \in { j \in 1..Len(rs) :
                                               rs[j].decade = "2010-2019" } }
        zero(df) == Seq_([i \in 1..Len(df) |-> [df[i] EXCEPT !.month = 0]])
        compare == calm_records(by_sid_decade(zero(isin(in_roses, compare_sids))))
        sid_decades == { <<rs[i].sid, rs[i].decade>> : i \in 1..Len(rs) }
    IN  SelectSeq(summary \o monthly \o compare,
                  LAMBDA c : <<c.sid, c.decade>> \in sid_decades)

----------------------------------------------------------------------------
(* Specification of a run of process_roses and then process_calms on the   *)
(* frame of up to MaxStations stations                                     *)

MaxStations == 2

\* per_day hourly observations from hour h0, on each of `days` days from
\* the first of month m of year y; month is not assigned yet
Block(sid, y, m, days, h0, per_day, ws, wd) ==
    [sid |-> sid, ts |-> TsOfDate(y, m) + h0,
     decade |-> decade_of(TsOfDate(y, m) + h0), month |-> NaN,
     days |-> days, per_day |-> per_day, ws |-> ws, wd |-> wd]

\* the station files: calm at every hour; calm half of the day; never
\* calm; first observation in 2012; 6 observations a day in the 1980s;
\* 1990s and 2010s; 2010s only; direction missing half of the day; the
\* year 2005 at 5 mph, half of the day from direction 0, half from 180
StationFiles ==
    << << Block("PAAA", 1980, 1, 3653, 0, 24, 0, 0),
          Block("PAAA", 2010, 1, 3652, 0, 24, 0, 0) >>,
       << Block("PABB", 1980, 1, 3653, 0, 12, 0, 0),
          Block("PABB", 1980, 1, 3653, 12, 12, 8000, 90),
          Block("PABB", 2010, 1, 3652, 0, 12, 0, 0),
          Block("PABB", 2010, 1, 3652, 12, 12, 12000, 200) >>,
       << Block("PACC", 1980, 1, 3653, 0, 24, 6000, 360),
          Block("PACC", 2010, 1, 3652, 0, 24, 15000, 10) >>,
       << Block("PADD", 2012, 1, 2922, 0, 6, 0, 0),
          Block("PADD", 2012, 1, 2922, 6, 18, 8000, 90) >>,
       << Block("PAEE", 1980, 1, 3653, 0, 6, 8000, 90),
          Block("PAEE", 2010, 1, 3652, 0, 12, 0, 0),
          Block("PAEE", 2010, 1, 3652, 12, 12, 9000, 270) >>,
       << Block("PAFF", 1990, 1, 3652, 0, 24, 9000, 270),
          Block("PAFF", 2010, 1, 3652, 0, 24, 23000, 180) >>,
       << Block("PAGG", 2010, 3, 3593, 0, 8, 0, 0),
          Block("PAGG", 2010, 3, 3593, 8, 16, 5000, 45) >>,
       << Block("PAHH", 1980, 1, 3653, 0, 12, 8000, NaN),
          Block("PAHH", 1980, 1, 3653, 12, 12, 8000, 90),
          Block("PAHH", 2010, 1, 3652, 0, 12, NaN, NaN),
          Block("PAHH", 2010, 1, 3652, 12, 12, 0, 0) >>,
       << Block("PAII", 2005, 1, 365, 0, 12, 5000, 0),
          Block("PAII", 2005, 1, 365, 12, 12, 5000, 180) >> >>

\* the frames of 1..MaxStations station files, in the order of the files
RosesInputs ==
    { concat(Seq_([i \in 1..Len(StationFiles) |->
                     IF i \in S THEN StationFiles[i] ELSE <<>>])) :
        S \in { T \in SUBSET (1..Len(StationFiles)) :
                  Cardinality(T) \in 1..MaxStations } }

\* the two decades of every station that allows a comparison have the same
\* distribution of the hour of day
HourParity(stations) ==
    \A df \in Range(compare_station_dfs(dropna(stations))) :
        same_hours(decade_rows(df, 1), decade_rows(df, 2))

InitRoses ==
    /\ pc = "start"
    /\ arg \in { df \in RosesInputs : HourParity(df) }
    /\ station = arg
    /\ RawIdle
    /\ PrepIdle
    /\ PoolIdle

\* lines 246-271: the summary roses; pd.concat raises on an empty list
RosesSummary ==
    /\ pc = "start"
    /\ LET station_dfs == by_sid(summary_stations(dropna(station)))
       IN  IF station_dfs = <<>>
           THEN /\ pc' = "raised"
                /\ UNCHANGED roses
           ELSE /\ roses' = concat(map_chunk_to_rose(station_dfs))
                /\ pc' = "summary"
    /\ UNCHANGED <<arg, station, rawVars, calms, rm_df,
                   iter_k, exceedance, ret, poolVars>>

\* lines 274-282: the monthly roses
RosesMonthly ==
    /\ pc = "summary"
    /\ LET station_dfs == by_sid_month(summary_stations(dropna(station)))
       IN  roses' = roses \o concat(map_chunk_to_rose(station_dfs))
    /\ pc' = "monthly"
    /\ UNCHANGED <<arg, station, rawVars, calms, rm_df,
                   iter_k, exceedance, ret, poolVars>>

\* lines 285-343: the comparison roses.  adjust_sampling returns at line 157
\* for every frame (HourParity: pval = 1) with an empty discard frame;
\* pd.concat raises at line 310 when no station allows a comparison and at
\* line 328 when none of them has an observation that is not calm
RosesCompare ==
    /\ pc = "monthly"
    /\ LET dfs == compare_station_dfs(dropna(station))
           chunks == compare_chunks(dfs)
       IN  IF dfs = <<>> \/ chunks = <<>>
           THEN /\ pc' = "raised"
                /\ UNCHANGED <<roses, rm_df>>
           ELSE /\ rm_df' = {}
                /\ roses' = roses \o concat(map_chunk_to_rose(chunks))
                /\ pc' = "returned"
    /\ UNCHANGED <<arg, station, rawVars, calms, iter_k,
                   exceedance, ret, poolVars>>

\* lines 346-425
ProcessCalms ==
    /\ pc = "returned"
    /\ calms' = process_calms(station, roses)
    /\ pc' = "done"
    /\ UNCHANGED <<arg, station, rawVars, roses, rm_df,
                   iter_k, exceedance, ret, poolVars>>

NextRoses == RosesSummary \/ RosesMonthly \/ RosesCompare \/ ProcessCalms

SpecRoses == InitRoses /\ [][NextRoses]_vars

\* the stations of the input whose every observation is calm
AllCalmStations ==
    { sid \in Range(sids_of(arg)) :
        \A r \in Range(of_sid(arg, sid)) : r.ws = 0 /\ r.wd = 0 }

\* C10: for a station whose every observation is calm, the rose and calm
\* processing completes without error, with a calm record of percent 100
\* and wind-rose rows of frequency 0 for the station
C10_AllCalmStation ==
    \A sid \in AllCalmStations :
        /\ pc # "raised"
        /\ pc = "done" =>
             /\ \E i \in 1..Len(calms) :
                  calms[i].sid = sid /\ calms[i].percent = 1000
             /\ \E i \in 1..Len(roses) : roses[i].sid = sid
             /\ \A i \in 1..Len(roses) :
                  roses[i].sid = sid => roses[i].frequency = 0

\* C11: for the station with one observation per clock hour over one
\* non-leap year, half from direction 0 and half from direction 180 at
\* 5 mph, the whole-history rose has about 50 % in the "0-6" band of the
\* north class 0 and of the south class, and 0 in every other cell
C11_HalfNorthHalfSouth ==
    (pc \in {"summary", "monthly", "returned", "done"}
        /\ of_sid(arg, "PAII") # <<>>) =>
        \A i \in 1..Len(roses) :
            (roses[i].sid = "PAII" /\ roses[i].month = 0
                /\ roses[i].decade = "none") =>
                IF roses[i].direction_class \in {0, 180}
                      /\ roses[i].speed_range = "0-6"
                THEN roses[i].frequency \in 4900..5100
                ELSE roses[i].frequency = 0

\* C12: the calm table and the rose table have the same grouping keys
\* (station, month or 0, decade or "none"), with exactly one calm record
\* for each key, also for the groups without a calm observation
C12_SameGroupingKeys ==
    pc = "done" =>
        LET key(r) == <<r.sid, r.month, r.decade>>
        IN  /\ { key(roses[i]) : i \in 1..Len(roses) }
                 = { key(calms[i]) : i \in 1..Len(calms) }
            /\ \A i, j \in 1..Len(calms) :
                 key(calms[i]) = key(calms[j]) => i = j

\* C13: the changepoint log returned by adjust_station has one record for
\* each breakpoint the detector reported, none when it reported none, also
\* when two breakpoints are less than 5 years apart
C13_LogHoldsEveryBreakpoint ==
    pc = "done" =>
        /\ Len(changepoints) = Len(cpts)
        /\ changepoints = cpt_dates_of(arg, cpts)

\* the stations of the input with observations that are not calm, first
\* observed before 2010-06-01, that fail the comparison sufficiency check
FailingStations ==
    LET stations == dropna(arg)
        passed == { df[1].sid : df \in Range(compare_station_dfs(stations)) }
    IN  { sid \in Range(sids_of(summary_stations(stations))) : sid \notin passed }

\* C14: a station that fails the comparison sufficiency check is left out
\* of the comparison roses only: the run yields its whole-history annual
\* and monthly rose rows as it does for a station that passes
C14_FailingStationKeepsSummary ==
    \A sid \in FailingStations :
        /\ pc # "raised"
        /\ pc \in {"returned", "done"} =>
             /\ \E i \in 1..Len(roses) :
                  roses[i].sid = sid /\ roses[i].month = 0
             /\ \E i \in 1..Len(roses) :
                  roses[i].sid = sid /\ roses[i].month # 0
             /\ \A i \in 1..Len(roses) :
                  roses[i].sid = sid => roses[i].decade = "none"

----------------------------------------------------------------------------
(* run_read_and_process (src/pipeline/process_raw.py): the station files   *)
(* are mapped over a pool of worker processes and the results concatenated *)

\* lines 247-251: the tuple returned, from the results of filter_spurious
\* and of adjust_station
result_tuple(filtered, adjusted) ==
    [raised |-> FALSE,
     station |-> add_decade(adjusted.station),
     spikes |-> filtered.spikes,
     dips |-> filtered.dips,
     changepoints |-> adjusted.changepoints]

\* lines 244-251: the call does not return when no observation is left for
\* the detector
adjust_filtered(filtered, bkps) ==
    IF Len(filtered.station) = 0
    THEN [raised |-> TRUE]
    ELSE result_tuple(filtered, adjust_station(filtered.station, bkps))

\* lines 191-251: the tuple read_and_process_csv returns for one file, with
\* the breakpoints bkps of the detector
read_and_process_csv(fp, bkps) ==
    adjust_filtered(filter_spurious(filter_to_hour(normalize(fp))), bkps)

\* the breakpoints the detector may report for the file fp
file_breakpoints(fp) ==
    Breakpoints(Len(monthly_means(
        filter_spurious(filter_to_hour(normalize(fp))).station)))

\* the result of a task is stored at the position of the task,
\* a variant stores it at the next free position
store_unordered(results, i, res) ==
    LET k == Cardinality(DOMAIN results) + 1
    IN  [j \in DOMAIN results \cup {k} |-> IF j = k THEN res ELSE results[j]]

\* line 270: Pool.map returns the results in the order of its arguments
store(results, i, res) ==
    [j \in DOMAIN results \cup {i} |-> IF j = i THEN res ELSE results[j]]

\* lines 272-275: one column of the result tuples, concatenated
concat_column(results, n, col) ==
    concat(Seq_([i \in 1..n |-> results[i][col]]))

----------------------------------------------------------------------------
(* Specification of run_read_and_process: up to MaxFiles station files of  *)
(* two reports within the same hour, on a pool of ncpus workers            *)

MaxFiles == 3

ncpus == 2

\* the (speed, direction) pairs of the two reports of a file: a file with
\* no valid report, and three files with different observations
PoolKinds ==
    { << <<0, 90>>, <<0, 90>> >>,
      << <<CalmFloor + 100, 90>>, <<0, 90>> >>,
      << <<60000, 90>>, <<CalmFloor + 100, 90>> >>,
      << <<CalmFloor, NaN>>, <<60000, 90>> >> }

PoolFiles ==
    { [i \in 1..2 |->
          [valid |-> ValidOf(i), drct |-> k[i][2], sped |-> k[i][1],
           gust_mph |-> NaN]] : k \in PoolKinds }

PoolInputs == UNION { [1..n -> PoolFiles] : n \in 1..MaxFiles }

InitPool ==
    /\ pc = "map"
    /\ arg \in PoolInputs
    /\ station = <<>>
    /\ RawIdle
    /\ PrepIdle
    /\ tasks = [i \in 1..Len(arg) |->
                   [state |-> "pending", worker |-> 0, runs |-> 0,
                    finished |-> 0]]
    /\ map_out = <<>>
    /\ rerun = <<>>

\* line 270: an idle worker takes the next file of the list
PoolStart(w) ==
    /\ pc = "map"
    /\ \A i \in 1..Len(tasks) :
          ~(tasks[i].state = "running" /\ tasks[i].worker = w)
    /\ \E i \in 1..Len(tasks) :
          /\ tasks[i].state = "pending"
          /\ \A j \in 1..(i - 1) : tasks[j].state # "pending"
          /\ tasks' = [tasks EXCEPT ![i].state = "running",
                                    ![i].worker = w,
                                    ![i].runs = @ + 1]
    /\ UNCHANGED <<pc, arg, station, rawVars, prepVars, map_out, rerun>>

\* line 270: the result res of task i, the nth to finish, is kept by
\* Pool.map
TaskDone(i, nth, res) ==
    IF res.raised
    THEN /\ tasks' = [tasks EXCEPT ![i].state = "failed",
                                   ![i].finished = nth]
         /\ UNCHANGED map_out
    ELSE /\ tasks' = [tasks EXCEPT ![i].state = "done",
                                   ![i].finished = nth]
         /\ map_out' = store(map_out, i, res)

\* line 270: a worker finishes read_and_process_csv on its file
PoolFinish(w) ==
    /\ pc = "map"
    /\ \E i \in 1..Len(tasks) :
          /\ tasks[i].state = "running"
          /\ tasks[i].worker = w
          /\ \E bkps \in file_breakpoints(arg[i]) :
                TaskDone(i,
                         Cardinality({ j \in 1..Len(tasks) :
                                         tasks[j].finished > 0 }) + 1,
                         read_and_process_csv(arg[i], bkps))
    /\ UNCHANGED <<pc, arg, station, rawVars, prepVars, rerun>>

\* lines 270-275: every file is processed, the four tables are concatenated
PoolReturn ==
    /\ pc = "map"
    /\ \A i \in 1..Len(tasks) : tasks[i].state = "done"
    /\ LET n == Len(tasks)
       IN  /\ station' = concat_column(map_out, n, "station")
           /\ spikes' = concat_column(map_out, n, "spikes")
           /\ dips' = concat_column(map_out, n, "dips")
           /\ changepoints' =
                  concat_column(map_out, n, "changepoints")
    /\ pc' = "done"
    /\ UNCHANGED <<arg, cpts, prepVars, poolVars>>

\* line 270: the exception of a worker is raised again by Pool.map once the
\* tasks are over, and run_read_and_process does not catch it
PoolRaise ==
    /\ pc = "map"
    /\ \A i \in 1..Len(tasks) : tasks[i].state \in {"done", "failed"}
    /\ \E i \in 1..Len(tasks) : tasks[i].state = "failed"
    /\ pc' = "raised"
    /\ UNCHANGED <<arg, station, rawVars, prepVars, poolVars>>

NextPool ==
    \/ \E w \in 1..ncpus : PoolStart(w)
    \/ \E w \in 1..ncpus : PoolFinish(w)
    \/ PoolReturn
    \/ PoolRaise

SpecPool == InitPool /\ [][NextPool]_vars

\* the tuple of file i, when the detector reports no breakpoint
file_result(i) == read_and_process_csv(arg[i], <<>>)

C16_FailureIsolated ==
    (/\ Len(tasks) > 0
     /\ \A i \in 1..Len(tasks) : tasks[i].state \in {"done", "failed"}
     /\ pc # "map") =>
        /\ pc = "done"
        /\ station = concat(Seq_([i \in 1..Len(arg) |->
                         IF tasks[i].state = "done"
                         THEN file_result(i).station ELSE <<>>]))

----------------------------------------------------------------------------
(* Specification of two runs of adjust_sampling on the same station data:  *)
(* the second run, held in rerun, starts when the first has returned.      *)
(* random.choice (line 12) draws from the generator of the process, which  *)
(* no line of the pipeline seeds, so each run draws on its own.            *)

MaxRerunRows == 9

\* the station data of SpecSampling with at most MaxRerunRows observations
RerunInputs == { st \in SamplingInputs : Len(st) <= MaxRerunRows }

InitRerun ==
    /\ pc = "start"
    /\ arg \in RerunInputs
    /\ station = arg
    /\ RawIdle
    /\ PrepIdle
    /\ tasks = <<>>
    /\ map_out = <<>>
    /\ rerun = [pc |-> "start", station |-> arg, rm_df |-> {}, iter_k |-> 0]

\* lines 150-157 in the second run
RerunQuickReturn ==
    /\ pc = "done"
    /\ rerun.pc = "start"
    /\ parity(rerun.station)
    /\ rerun' = [rerun EXCEPT !.pc = "done"]
    /\ UNCHANGED <<pc, arg, station, rawVars, prepVars, tasks, map_out>>

\* lines 159-183 in the second run
RerunEnterLoop ==
    /\ pc = "done"
    /\ rerun.pc = "start"
    /\ ~parity(rerun.station)
    /\ rerun' = [rerun EXCEPT !.pc = "loop", !.iter_k = 1]
    /\ UNCHANGED <<pc, arg, station, rawVars, prepVars, tasks, map_out>>

\* lines 185-217 in the second run
RerunPrune ==
    /\ pc = "done"
    /\ rerun.pc = "loop"
    /\ LET d1_station == decade_rows(rerun.station, 1)
           d2_station == decade_rows(rerun.station, 2)
       IN  \E rm1 \in choices(d1_station, prune_hoy(d1_station, d2_station)),
              rm2 \in choices(d2_station, prune_hoy(d2_station, d1_station)) :
              LET rm_ts == rm1 \cup rm2
                  left  == DropIdx(rerun.station, rm_ts)
              IN  rerun' =
                    [pc |-> IF Len(decade_names(left)) # 2 THEN "raised"
                            ELSE IF parity(left) THEN "done" ELSE "loop",
                     station |-> left,
                     rm_df |-> rerun.rm_df
                                 \cup discarded(rerun.station, rm_ts,
                                                rerun.iter_k),
                     iter_k |-> rerun.iter_k + 1]
    /\ UNCHANGED <<pc, arg, station, rawVars, prepVars, tasks, map_out>>

NextRerun ==
    \/ SamplingQuickReturn
    \/ SamplingEnterLoop
    \/ SamplingPrune
    \/ RerunQuickReturn
    \/ RerunEnterLoop
    \/ RerunPrune

SpecRerun == InitRerun /\ [][NextRerun]_vars

----------------------------------------------------------------------------
(* Specification of the quantile mapping of adjust_station (lines 164-180) *)
(* on a segment corrected against itself: the reference slice and the      *)
(* historical slice hold the same observations                             *)

MaxSegment == 3

SegmentSpeeds == {0, 2400, 3000, 10000}

SegmentInputs ==
    UNION { { [i \in 1..n |->
                 [ts |-> SliceStart + i, drct |-> IF v[i] = 0 THEN 0 ELSE 90,
                  sped |-> v[i], gust_mph |-> NaN]] :
              v \in [1..n -> SegmentSpeeds] } : n \in 1..MaxSegment }

InitSegment ==
    /\ pc = "start"
    /\ arg \in SegmentInputs
    /\ station = arg
    /\ RawIdle
    /\ PrepIdle
    /\ PoolIdle

\* lines 166-180 with obs and sim the same slice
CorrectAgainstItself ==
    /\ pc = "start"
    /\ LET sl  == <<SliceStart, SliceEnd>>
           obs == SliceSped(station, sl)
       IN  station' = correct_slice(with_sped_adj(station), obs, sl)
    /\ pc' = "done"
    /\ UNCHANGED <<arg, rawVars, prepVars, poolVars>>

NextSegment == CorrectAgainstItself

SpecSegment == InitSegment /\ [][NextSegment]_vars

exceeds_5_years(dates) ==
    dates[2] > TsOfDate(YearOf(dates[1]) + GapYears, MonthOf(dates[1]))

\* lines 164-180 with the slices sls, the last one the reference
corrected_with(st, sls) ==
    correct_slices(with_sped_adj(st), SliceSped(st, sls[Len(sls)]), sls, 1)

\* C19: with two breakpoints adjust_station corrects over three segments
\* when the breakpoint dates are more than 5 years apart, and otherwise,
\* also at exactly 5 calendar years, as if only the first had been reported
C19_ThreeSegmentsIffOverFiveYears ==
    (pc = "done" /\ Len(cpts) = 2) =>
        LET dates == cpt_dates_of(arg, cpts)
        IN  IF exceeds_5_years(dates)
            THEN station = corrected_with(arg,
                     << <<SliceStart, dates[1]>>, <<dates[1], dates[2]>>,
                        <<dates[2], SliceEnd>> >>)
            ELSE station = adjust_station(arg, <<cpts[1]>>).station

\* the rules applied in the listed order: the ceiling, the near-calm
\* standardization, the drop of contradictory observations, the gusts
listed_order(st) ==
    drop_negative_gust(drop_contradictory(standardize_calm(below_ceiling(st))))

\* C20: the normalized observations of a file are those obtained by
\* applying the rules in the listed order, the near-calm standardization
\* before the drop of contradictory observations
C20_RulesInListedOrder ==
    pc = "normalized" => station = listed_order(arg)

\* the reports of arg in the hour ts that are nearest to the hour mark
nearest_reports(ts) ==
    { r \in Range(arg) :
        round_H(r.valid) = ts /\ delta_dt(r.valid) = min_delta_dt(arg, ts) }

\* C21: when several reports of an hour tie for the minimum delta from the
\* hour mark, filter_to_hour keeps the one with the earliest valid time,
\* whatever the order of the rows
C21_TieKeepsEarliest ==
    pc = "done" =>
        \A o \in Range(station) :
            \E r \in nearest_reports(o.ts) :
                /\ r.sped = o.sped
                /\ \A q \in nearest_reports(o.ts) : r.valid <= q.valid

\* the number of observations of the frame st in the decade d at the hour
\* of year h
count_at(st, d, h) ==
    Cardinality({ i \in 1..Len(st) : st[i].decade = d /\ hoy_of(st[i].ts) = h })

\* the hours of year at which the input has an observation, and one at
\* which it has none
ObservedHoys == { hoy_of(arg[i].ts) : i \in 1..Len(arg) } \cup {3}

\* the two decades of the input
InputDecades == { arg[i].decade : i \in 1..Len(arg) }

\* C22: one pruning iteration of adjust_sampling removes, at every hour of
\* year at which the counts of the two decades differ, exactly one
\* observation, of the decade with the larger count, and removes nothing
\* at an hour of year at which the counts are equal
C22_OnePerUnequalHour ==
    [][pc = "loop" =>
        \A h \in ObservedHoys : \A a, b \in InputDecades :
            a # b =>
              LET ca == count_at(station, a, h)
                  cb == count_at(station, b, h)
              IN  /\ ca > cb => /\ count_at(station', a, h) = ca - 1
                                /\ count_at(station', b, h) = cb
                  /\ ca = cb => /\ count_at(station', a, h) = ca
                                /\ count_at(station', b, h) = cb]_vars

\* a pruning iteration ran on data with an hour of year at which one decade
\* had at least two observations more than the other, and each decade had
\* more than the other at some hour of year
C22_Witness ==
    /\ pc \in {"loop", "done"}
    /\ iter_k > 1
    /\ \E h \in ObservedHoys :
          count_at(arg, "1980-1989", h) > count_at(arg, "2010-2019", h) + 1
    /\ \E h \in ObservedHoys :
          count_at(arg, "1980-1989", h) < count_at(arg, "2010-2019", h)

\* the observations of the discard log, without the iteration number
logged_rows(log) ==
    { [sid |-> r.sid, ts |-> r.ts, decade |-> r.decade] : r \in log }

\* C23: when adjust_sampling has returned, the retained observations and
\* the discard log are disjoint and together are the input; the log holds
\* the iteration numbers 1, 2, ... of the iterations made, each
\* observation under the number of the iteration that removed it; when the
\* first test passes the log is empty and no observation is removed
C23_LogAndRetainedPartitionInput ==
    /\ [](pc = "done" =>
            /\ Range(station) \cap logged_rows(rm_df) = {}
            /\ Range(station) \cup logged_rows(rm_df) = Range(arg)
            /\ Len(station) + Cardinality(rm_df) = Len(arg)
            /\ { r.iter : r \in rm_df } = 1..(iter_k - 1)
            /\ iter_k = 0 => rm_df = {} /\ station = arg)
    /\ [][pc = "loop" =>
            /\ rm_df \subseteq rm_df'
            /\ logged_rows(rm_df' \ rm_df) = Range(station) \ Range(station')
            /\ \A r \in rm_df' \ rm_df :
                  r.iter = 1 + Cardinality({ q.iter : q \in rm_df })]_vars

\* adjust_sampling returned after two pruning iterations, both in the log
C23_Witness ==
    /\ pc = "done"
    /\ iter_k = 3
    /\ { r.iter : r \in rm_df } = {1, 2}
    /\ Len(station) < Len(arg)

\* the sum over the hours of year of the absolute difference between the
\* counts of the two decades of the input
count_gap(st) ==
    LET hs == Ascending(ObservedHoys)
        d1 == decades[decade_names(arg)[1]]
        d2 == decades[decade_names(arg)[2]]
    IN  SeqSum(Seq_([k \in 1..Len(hs) |->
            Abs(count_at(st, d1, hs[k]) - count_at(st, d2, hs[k]))]))

\* C30: through the pruning iterations of adjust_sampling, at every hour
\* of year the decade that had fewer or as many observations in the input
\* keeps them all and the other decade keeps at least as many as that, and
\* every iteration that removes something decreases the sum over the hours
\* of the absolute difference of the counts
C30_PruningNeverOvershoots ==
    /\ [](\A h \in ObservedHoys : \A a, b \in InputDecades :
            (a # b /\ count_at(arg, a, h) <= count_at(arg, b, h)) =>
                /\ count_at(station, a, h) = count_at(arg, a, h)
                /\ count_at(station, b, h) >= count_at(arg, a, h))
    /\ [][station' # station => count_gap(station') < count_gap(station)]_vars

\* a pruning iteration ran on data with an hour of year at which both
\* decades had observations, one decade more than the other
C30_Witness ==
    /\ pc \in {"loop", "done"}
    /\ iter_k > 1
    /\ \E h \in ObservedHoys : \E a, b \in InputDecades :
          /\ count_at(arg, a, h) > 0
          /\ count_at(arg, a, h) < count_at(arg, b, h)
          /\ count_at(station, b, h) < count_at(arg, b, h)

\* the sum of the counts of the rows of one resolution
CountSum(rs, coarse) ==
    SeqSum(Seq_([i \in 1..Len(rs) |->
               IF rs[i].coarse = coarse THEN rs[i].count ELSE 0]))

\* C24: the speed bands of chunk_to_rose do not overlap: at each resolution
\* every observation, a speed on a band boundary included, is counted in
\* one band of one direction class, so the counts sum to the number of
\* observations of the subset
C24_BandsDoNotOverlap ==
    pc = "done" =>
        \A coarse \in BOOLEAN :
            /\ CountSum(roses, coarse) = size(arg)
            /\ \A i \in 1..Len(arg) :
                  Cardinality({ b \in 1..Len(speed_ranges) :
                      between(arg[i].ws, speed_ranges[b].lo,
                              speed_ranges[b].hi) }) = 1

----------------------------------------------------------------------------
(* Specification of the direction binning of chunk_to_rose: a subset of    *)
(* one observation, of any whole direction                                 *)

BinInputs ==
    { << [sid |-> "PAFA", decade |-> "none", month |-> 0, days |-> 1,
          per_day |-> 1, wd |-> wd, ws |-> 8000] >> : wd \in 0..360 }

InitBins ==
    /\ pc = "start"
    /\ arg \in BinInputs
    /\ station = arg
    /\ RawIdle
    /\ PrepIdle
    /\ PoolIdle

NextBins == ChunkToRose

SpecBins == InitBins /\ [][NextBins]_vars

\* the direction wd lies in the bin of the class at the resolution: the
\* wraparound bin for class 0, else the bin of 10 or of 45 degrees, open
\* below and closed above; the class in tenths is the centre of its bin in
\* degrees (fine class k is 10k, coarse class 4.5j is 45j)
in_bin(wd, class, coarse) ==
    IF coarse
    THEN IF class = 0 THEN 2 * wd > 675 \/ 2 * wd <= 45
         ELSE 2 * class - 45 < 2 * wd /\ 2 * wd <= 2 * class + 45
    ELSE IF class = 0 THEN wd > 355 \/ wd <= 5
         ELSE class - 5 < wd /\ wd <= class + 5

\* C25: at each resolution chunk_to_rose counts an observation in one
\* direction class: at the fine resolution class k (k = 1..35) for a
\* direction in (10k - 5, 10k + 5] and class 0 for a direction above 355 or
\* of at most 5, at the coarse resolution class 0 for a direction above
\* 337.5 or of at most 22.5 and seven bins of 45 degrees in between
C25_OneDirectionClass ==
    pc = "done" =>
        /\ { r.direction_class : r \in { q \in Range(roses) : ~q.coarse } }
               = { 10 * k : k \in 0..35 }
        /\ Cardinality({ r.direction_class :
                           r \in { q \in Range(roses) : q.coarse } }) = 8
        /\ \A i \in 1..Len(roses) :
              roses[i].speed_range = "6-10" =>
                  roses[i].count =
                      IF in_bin(arg[1].wd, roses[i].direction_class,
                                roses[i].coarse)
                      THEN 1 ELSE 0
        /\ \A coarse \in BOOLEAN : CountSum(roses, coarse) = 1

\* an observation on the upper edge of the last fine bin, 355 degrees, was
\* counted in class 35 at the fine resolution and in the wraparound class
\* at the coarse one
C25_Witness ==
    /\ pc = "done"
    /\ arg[1].wd = 355
    /\ \E i, j \in 1..Len(roses) :
          /\ ~roses[i].coarse /\ roses[i].direction_class = 350
          /\ roses[i].count = 1
          /\ roses[j].coarse /\ roses[j].direction_class = 0
          /\ roses[j].count = 1

----------------------------------------------------------------------------
(* Specification of check_sufficient_comparison_rose_data: one station     *)
(* that in each of the four decades has no observation, one year of        *)
(* observations or the whole decade, 12 observations a day                 *)

Coverages == {"none", "year", "decade"}

\* the rows of the decade that starts in year y, at a speed of its own
DecadeRows(y, coverage) ==
    IF coverage = "none" THEN <<>>
    ELSE << Block("PAFA", y, 1, IF coverage = "year" THEN 365 ELSE 3652,
                  0, 12, 1000 + (y - EpochYear) * 100, 90) >>

CompareInputs ==
    { DecadeRows(1980, c[1]) \o DecadeRows(1990, c[2])
        \o DecadeRows(2000, c[3]) \o DecadeRows(2010, c[4]) :
        c \in { d \in [1..4 -> Coverages] : \E i \in 1..4 : d[i] # "none" } }

InitCompare ==
    /\ pc = "start"
    /\ arg \in CompareInputs
    /\ station = arg
    /\ RawIdle
    /\ PrepIdle
    /\ PoolIdle

\* lines 45-59
CheckSufficientComparison ==
    /\ pc = "start"
    /\ station' = check_sufficient_comparison_rose_data(arg)
    /\ ret' = (check_sufficient_comparison_rose_data(arg) # None)
    /\ pc' = "done"
    /\ UNCHANGED <<arg, rawVars, roses, calms, rm_df,
                   iter_k, exceedance, poolVars>>

NextCompare == CheckSufficientComparison

SpecCompare == InitCompare /\ [][NextCompare]_vars

\* the station has observations in the decade and they pass is_sufficient
decade_sufficient(decade) ==
    /\ of_decade(arg, decade) # <<>>
    /\ is_sufficient(value_counts_of(of_decade(arg, decade)), R1, R2)

\* C26: check_sufficient_comparison_rose_data returns None when the
\* station has no sufficient 2010s data or no sufficient data in the 1980s
\* and in the 1990s; otherwise it returns the observations of the oldest
\* sufficient of these two decades and of the 2010s, and nothing else
C26_TwoDecadesOrNone ==
    pc = "done" =>
        IF ~decade_sufficient("2010-2019")
             \/ (~decade_sufficient("1980-1989")
                   /\ ~decade_sufficient("1990-1999"))
        THEN ~ret /\ station = None
        ELSE LET old == IF decade_sufficient("1980-1989")
                        THEN "1980-1989" ELSE "1990-1999"
             IN  /\ ret
                 /\ station = of_decade(arg, old)
                                \o of_decade(arg, "2010-2019")
                 /\ \A r \in Range(station) : r.decade \in {old, "2010-2019"}

\* a station with sufficient data in all four decades got back its 1980s
\* and its 2010s
C26_Witness ==
    /\ pc = "done"
    /\ \A d \in {"1980-1989", "1990-1999", "2000-2009", "2010-2019"} :
          decade_sufficient(d)
    /\ { r.decade : r \in Range(station) } = {"1980-1989", "2010-2019"}

----------------------------------------------------------------------------
(* process_wep (src/pipeline/preprocess.py).  The rows carry the wind      *)
(* energy potential wep of an observation, in W/m2, which lines 505-520    *)
(* compute from its speed alone.                                           *)

\* line 521: the (sid, year, month) keys of the frame, ascending
wep_keys(df) ==
    LET K == { <<r.sid, r.year, r.month>> : r \in Range(df) }
        sids == sids_of(df)
        years == Ascending({ k[2] : k \in K })
        cells == Seq_([n \in 1..(Len(sids) * Len(years) * 12) |->
                    << sids[1 + (n - 1) \div (Len(years) * 12)],
                       years[1 + (((n - 1) \div 12) % Len(years))],
                       1 + ((n - 1) % 12) >>])
    IN  SelectSeq(cells, LAMBDA k : k \in K)

\* lines 521-522: the rounded mean wep of each (sid, year, month)
mean_wep_of(df) ==
    LET keys == wep_keys(df)
        weps(k) == SelectSeq(df, LAMBDA r : <<r.sid, r.year, r.month>> = k)
        mean(k) == RoundHalfEven(
                      SeqSum(Seq_([i \in 1..Len(weps(k)) |-> weps(k)[i].wep])),
                      Len(weps(k)))
    IN  Seq_([i \in 1..Len(keys) |->
            [sid |-> keys[i][1], year |-> keys[i][2], month |-> keys[i][3],
             wep |-> mean(keys[i])]])

\* lines 524-530: n and the sums that give the standard deviation of the
\* monthly means of a station for a calendar month:
\*   std ^ 2 = (n * sum of squares - (sum) ^ 2) / (n * (n - 1))
month_sums(mean_wep, sid, month) ==
    LET g == SelectSeq(mean_wep, LAMBDA r : r.sid = sid /\ r.month = month)
    IN  [n |-> Len(g),
         sum |-> SeqSum(Seq_([i \in 1..Len(g) |-> g[i].wep])),
         squares |-> SeqSum(Seq_([i \in 1..Len(g) |-> g[i].wep * g[i].wep]))]

\* lines 531-533: wep < 5 * std; the deviation of a single value is
\* missing and the comparison with it is false
below_5_std(wep, s) ==
    /\ s.n >= 2
    /\ wep * wep * s.n * (s.n - 1) < 25 * (s.n * s.squares - s.sum * s.sum)

\* lines 521-533
process_wep(stations) ==
    LET mean_wep == mean_wep_of(stations)
    IN  SelectSeq(mean_wep, LAMBDA r :
            below_5_std(r.wep, month_sums(mean_wep, r.sid, r.month)))

----------------------------------------------------------------------------
(* Specification of process_wep: one station with one observation in the   *)
(* January of up to MaxYears years, with or without two Februaries         *)

MaxYears == 3

WepValues == {0, 10, 100, 1000}

WepRow(year, month, wep) ==
    [sid |-> "PAAA", year |-> year, month |-> month, wep |-> wep]

WepInputs ==
    { Seq_([i \in 1..n |-> WepRow(2009 + i, 1, v[i])]) \o feb :
        n \in 1..MaxYears, v \in [1..MaxYears -> WepValues],
        feb \in { <<>>, << WepRow(2010, 2, 0), WepRow(2011, 2, 1000) >> } }

InitWep ==
    /\ pc = "start"
    /\ arg \in WepInputs
    /\ station = arg
    /\ RawIdle
    /\ PrepIdle
    /\ PoolIdle

\* lines 497-541
ProcessWep ==
    /\ pc = "start"
    /\ ret' = process_wep(station)
    /\ pc' = "done"
    /\ UNCHANGED <<arg, station, rawVars, roses, calms, rm_df,
                   iter_k, exceedance, poolVars>>

NextWep == ProcessWep

SpecWep == InitWep /\ [][NextWep]_vars

\* the January means of the input
JanuaryMeans == { r.wep : r \in { q \in Range(arg) : q.month = 1 } }

\* C27: process_wep discards a monthly mean when it exceeds 5 standard
\* deviations of the means of its station for that calendar month and
\* keeps every other monthly mean, also the single mean of a station-month
\* and the means of a station-month with the same value in every year
C27_DiscardsOnlyOutliers ==
    pc = "done" =>
        \A r \in Range(arg) :
            LET s == month_sums(arg, r.sid, r.month)
                outlier == /\ s.n >= 2
                           /\ s.n * s.squares # s.sum * s.sum
                           /\ r.wep * r.wep * s.n * (s.n - 1)
                                > 25 * (s.n * s.squares - s.sum * s.sum)
            IN  (r \in Range(ret)) <=> ~outlier

\* the slices adjust_station used in the run
used_slices == slices_of(cpt_dates_of(arg, cpts))

\* C28: when adjust_station uses a breakpoint its segments are disjoint, an
\* observation at a breakpoint date included, and the observations of the
\* most recent segment keep their speed as adjusted speed
C28_SegmentsDisjoint ==
    (pc = "done" /\ Len(cpts) > 0) =>
        \A i \in 1..Len(arg) :
            /\ Cardinality({ k \in 1..Len(used_slices) :
                               InSlice(arg[i].ts, used_slices[k]) }) <= 1
            /\ InSlice(arg[i].ts, used_slices[Len(used_slices)]) =>
                   station[i].sped_adj = Whole(arg[i].sped)

\* C29: in the stream returned by adjust_station every observation with an
\* adjusted speed of 0 has direction 0
C29_CalmHasNoDirection ==
    pc = "done" =>
        \A i \in 1..Len(station) :
            station[i].sped_adj.n = 0 => station[i].drct = 0

====
